---- MODULE Spec2Model ----
(***************************************************************************)
(* The protocol dispatch layer of mcp-server-store: the JSON-RPC wire      *)
(* codec, the dispatcher with its stdio transport loop, the MCP registry   *)
(* and the Server facade that wires the registry onto the dispatcher.      *)
(***************************************************************************)
EXTENDS Integers, Sequences, FiniteSets, TLC

(***************************************************************************)
(* Bounds of the model.                                                    *)
(***************************************************************************)
\* Lines the input stream delivers before it ends.
MaxLines == 2
\* Keys a collaborator registers, over the three stores.
MaxEntries == 2
\* Calls of Server.ServeStdio / Server.Start over the life of a facade.
MaxServe == 2

(***************************************************************************)
(* JSON-RPC error codes (internal/jsonrpc/errors.go).                      *)
(***************************************************************************)
ErrorParse == -32700
ErrorInvalidRequest == -32600
ErrorMethodNotFound == -32601
ErrorInvalidParams == -32602
ErrorInternal == -32603

(***************************************************************************)
(* MCP method names and the protocol version literal.                      *)
(***************************************************************************)
MethodInitialize == "initialize"
MethodPing == "ping"
MethodToolsList == "tools/list"
MethodToolsCall == "tools/call"
MethodResourcesList == "resources/list"
MethodResourcesRead == "resources/read"
MethodPromptsList == "prompts/list"
MethodPromptsGet == "prompts/get"
NotificationInitialized == "notifications/initialized"
MethodLoggingSetLevel == "logging/setLevel"
ProtocolVersion == "2025-11-25"

(***************************************************************************)
(* Numbers.  A JSON number is the integer 2^exp + off (0 <= off < 2^exp).  *)
(* encoding/json decodes a number met in an interface{} into a float64,    *)
(* which keeps Float64Precision significant bits, rounding to nearest,     *)
(* ties to even; it encodes an integral float64 back as that integer.      *)
(***************************************************************************)
Float64Precision == 53

Pow2(n) == 2 ^ n

\* off rounded to the nearest multiple of ulp, ties to the even multiple
RoundHalfEven(off, ulp) ==
    LET q == off \div ulp
        r == off % ulp
    IN  IF 2 * r < ulp THEN q * ulp
        ELSE IF 2 * r > ulp THEN (q + 1) * ulp
        ELSE IF q % 2 = 0 THEN q * ulp ELSE (q + 1) * ulp

\* strconv.ParseFloat(s, 64) of the integer 2^exp + off
ParseFloat(n) ==
    IF n.exp < Float64Precision THEN n
    ELSE [n EXCEPT !.off = RoundHalfEven(n.off, Pow2(n.exp - (Float64Precision - 1)))]

(***************************************************************************)
(* The id member on the wire (a JSON token) and in memory (interface{}).   *)
(***************************************************************************)
AbsentID == [kind |-> "absent", exp |-> 0, off |-> 0]
NullID == [kind |-> "null", exp |-> 0, off |-> 0]
NumberID(e, o) == [kind |-> "number", exp |-> e, off |-> o]
\* the ids 1 and 2^53 + 1
SmallID == NumberID(0, 0)
BigID == NumberID(Float64Precision, 1)
IDTokens == {AbsentID, NullID, SmallID, BigID}

NilID == [kind |-> "nil", exp |-> 0, off |-> 0]

\* a string id, on the wire and in memory
StringID == [kind |-> "string", exp |-> 0, off |-> 0]
\* an integer id a Go caller hands to NewResponse: int64(2^exp + off)
Int64ID(e, o) == [kind |-> "int64", exp |-> e, off |-> o]

\* mutant: a null id is kept as a value of its own, apart from a missing id
DecodeIDKeepsNull(tok) ==
    IF tok.kind = "number"
    THEN [kind |-> "float64"] @@ ParseFloat([exp |-> tok.exp, off |-> tok.off])
    ELSE IF tok.kind = "string" THEN StringID
    ELSE IF tok.kind = "null" THEN [kind |-> "null", exp |-> 0, off |-> 0]
    ELSE NilID

\* json.Unmarshal of the id member into Request.ID (interface{}, omitempty)
DecodeID(tok) ==
    IF tok.kind = "number"
    THEN [kind |-> "float64"] @@ ParseFloat([exp |-> tok.exp, off |-> tok.off])
    ELSE IF tok.kind = "string" THEN StringID
    ELSE NilID

\* json.Marshal of Response.ID (interface{}, omitempty): nil is left out, a
\* string is a string, an integer and an integral float64 are their digits
EncodeID(id) ==
    IF id.kind = "nil" THEN AbsentID
    ELSE IF id.kind = "string" THEN StringID
    ELSE NumberID(id.exp, id.off)

(***************************************************************************)
(* Input lines.  A line is malformed JSON ("syntax"), well-formed JSON     *)
(* that does not fit the Request struct ("shape": a number, an array, a    *)
(* member of the wrong type), the literal null, or a JSON object with the  *)
(* members jsonrpc, method, params and id.  The params member is absent,   *)
(* null, a value that fits no params struct ("bad"), or the object         *)
(* {"name": key, "uri": key, "level": key}.                                *)
(***************************************************************************)
Names == {"ping", "echo"}
ParamKeys == Names \cup {"error"}

AbsentParams == [kind |-> "absent", key |-> ""]
NullParams == [kind |-> "null", key |-> ""]
BadParams == [kind |-> "bad", key |-> ""]
ObjectParams(k) == [kind |-> "object", key |-> k]
ParamsTokens ==
    {AbsentParams, NullParams, BadParams} \cup {ObjectParams(k) : k \in ParamKeys}

KnownMethods ==
    {MethodInitialize, MethodPing, MethodToolsList, MethodToolsCall,
     MethodResourcesList, MethodResourcesRead, MethodPromptsList,
     MethodPromptsGet, NotificationInitialized, MethodLoggingSetLevel}
MethodNames == KnownMethods \cup {"nope", ""}

ObjectLine(v, m, p, i) ==
    [kind |-> "object", jsonrpc |-> v, method |-> m, params |-> p, id |-> i]
NoLine == [kind |-> "none", jsonrpc |-> "", method |-> "", params |-> AbsentParams, id |-> AbsentID]
SyntaxLine == [NoLine EXCEPT !.kind = "syntax"]
ShapeLine == [NoLine EXCEPT !.kind = "shape"]
NullLine == [NoLine EXCEPT !.kind = "null"]

\* the params worth telling apart for method m: a handler that ignores its
\* params gets none; a key is one that can be registered, one that cannot
ParamsFor(m) ==
    CASE m = MethodToolsCall -> ParamsTokens
      [] m \in {MethodResourcesRead, MethodPromptsGet} ->
             {AbsentParams, NullParams, BadParams, ObjectParams("ping"), ObjectParams("echo")}
      [] m = MethodLoggingSetLevel ->
             {AbsentParams, NullParams, BadParams, ObjectParams("error"), ObjectParams("ping")}
      [] m = MethodInitialize ->
             {AbsentParams, NullParams, BadParams, ObjectParams("ping")}
      [] OTHER -> {AbsentParams}

Lines ==
    {SyntaxLine, ShapeLine, NullLine}
    \cup UNION {{ObjectLine("2.0", m, p, i) : p \in ParamsFor(m), i \in IDTokens} :
                   m \in MethodNames}
    \cup {ObjectLine("1.0", m, AbsentParams, i) : m \in MethodNames, i \in IDTokens}

(***************************************************************************)
(* Request, Error, Response (the wire codec's types).                      *)
(***************************************************************************)
\* the zero Request
ZeroRequest == [JSONRPC |-> "", Method |-> "", Params |-> AbsentParams, ID |-> NilID]

\* json.Unmarshal(line, &req): ok is FALSE when it returns an error
Unmarshal(l) ==
    CASE l.kind = "object" ->
           [ok |-> TRUE,
            req |-> [JSONRPC |-> l.jsonrpc, Method |-> l.method,
                     Params |-> l.params, ID |-> DecodeID(l.id)]]
      [] l.kind = "null" -> [ok |-> TRUE, req |-> ZeroRequest]
      [] OTHER -> [ok |-> FALSE, req |-> ZeroRequest]

\* a nil *Error, and &Error{Code, Message, Data}; a message is the tuple of
\* the format string and its arguments, Data <<>> is a nil Data
NilError == [ptr |-> "nil", Code |-> 0, Message |-> <<>>, Data |-> <<>>]
Error(code, message, data) ==
    [ptr |-> "set", Code |-> code, Message |-> message, Data |-> data]

NewParseError(message, data) == Error(ErrorParse, message, data)
NewMethodNotFoundError(message, data) == Error(ErrorMethodNotFound, message, data)
NewInvalidParamsError(message, data) == Error(ErrorInvalidParams, message, data)
NewInternalError(message, data) == Error(ErrorInternal, message, data)

\* mutant: a notification is told by its method name, not by its id
IsNotificationByMethod(r) == r.Method = NotificationInitialized

IsNotification(r) == r.ID = NilID

Validate(r) ==
    IF r.JSONRPC # "2.0"
    THEN Error(ErrorInvalidRequest, <<"Invalid JSON-RPC version">>, <<>>)
    ELSE IF r.Method = ""
    THEN Error(ErrorInvalidRequest, <<"Method is required">>, <<>>)
    ELSE NilError

(***************************************************************************)
(* Handler results (interface{}).  type "nil" is the nil interface;        *)
(* "nilptr" is a nil *ToolCallResult held in a non-nil interface.  text    *)
(* and isError are the fields of a ToolCallResult with one text Content    *)
(* block, of a ReadResourceResult or of a GetPromptResult; items are the   *)
(* entries of a list result; caps, info, instructions those of an          *)
(* InitializeResult.  A list is kept as the number of times each entry was *)
(* appended to it (its order is the map's iteration order, which Go leaves *)
(* unspecified).                                                           *)
(***************************************************************************)
NoItems == [e \in {} |-> 1]
NilResult ==
    [type |-> "nil", text |-> <<>>, isError |-> FALSE, items |-> NoItems,
     caps |-> {}, info |-> "", instructions |-> ""]
Result(t) == [NilResult EXCEPT !.type = t]

NewResponse(id, result, err) ==
    [JSONRPC |-> "2.0", ID |-> id, Result |-> result, Error |-> err]
NewErrorResponse(id, err) == NewResponse(id, NilResult, err)
NewSuccessResponse(id, result) == NewResponse(id, result, NilError)
NoResponse == [JSONRPC |-> "", ID |-> NilID, Result |-> NilResult, Error |-> NilError]

(***************************************************************************)
(* json.Marshal(resp): the members of the written document.  The result,   *)
(* error and id members carry omitempty: a nil interface and a nil pointer *)
(* are left out of the document.                                           *)
(***************************************************************************)
Marshal(resp) ==
    [jsonrpc |-> resp.JSONRPC,
     id |-> EncodeID(resp.ID),
     hasResult |-> resp.Result.type # "nil",
     result |-> resp.Result,
     hasError |-> resp.Error.ptr # "nil",
     error |-> resp.Error]

\* json.Unmarshal(line, &resp) of a written document: a member left out
\* leaves the field at its zero value; a null result decodes to a nil Result
UnmarshalResponse(doc) ==
    [JSONRPC |-> doc.jsonrpc,
     ID |-> DecodeID(doc.id),
     Result |-> IF doc.hasResult /\ doc.result.type # "nilptr" THEN doc.result ELSE NilResult,
     Error |-> IF doc.hasError THEN doc.error ELSE NilError]

(***************************************************************************)
(* The registry's entries and the collaborators' handlers.  A registration *)
(* passes an entry (its key and its description) and a handler; the        *)
(* handlers are told apart by name.                                        *)
(***************************************************************************)
ToolNames == Names
ResourceURIs == {"ping"}
PromptNames == {"ping"}
Descriptions == {"d1", "d2"}
HandlerIds == {"h1", "h2"}
\* the (description, handler) pairs a collaborator registers
Registrations == {<<"d1", "h1">>, <<"d2", "h2">>}

Tool(name, description) == [name |-> name, description |-> description]
Resource(uri, description) == [uri |-> uri, description |-> description]
Prompt(name, description) == [name |-> name, description |-> description]

\* what handler h returns when it succeeds, and err.Error() when it fails
HandlerText(h) == <<"output of", h>>
HandlerFailure(h) == <<"failure of", h>>

\* NewServer("mcp-server-store", "0.1.0", ...), WithInstructions(...)
ServerInfo == "mcp-server-store 0.1.0"
Instructions == "A store management MCP server."

\* logging/setLevel: the MCP levels and the logrus level each maps to
levelMap ==
    [debug |-> "DebugLevel", info |-> "InfoLevel", notice |-> "InfoLevel",
     warning |-> "WarnLevel", error |-> "ErrorLevel", critical |-> "FatalLevel",
     alert |-> "FatalLevel", emergency |-> "PanicLevel"]

(***************************************************************************)
(* State.                                                                  *)
(***************************************************************************)
VARIABLES
    tools, toolHandlers,          \* Registry.tools, Registry.toolHandlers
    resources, resourceHandlers,  \* Registry.resources, Registry.resourceHandlers
    prompts, promptHandlers,      \* Registry.prompts, Registry.promptHandlers
    capabilities,                 \* Server.capabilities: the families present
    handlers,                     \* jsonrpc.Server.handlers: method -> handler
    logLevel,                     \* the logger's level
    pc,                           \* where the facade / transport loop stands
    serveCount,                   \* calls of Server.ServeStdio so far
    wirings,                      \* executions of Server.registerHandlers so far
    ret,                          \* what the last ServeStdio returned
    nread,                        \* lines read from the input so far
    input,                        \* the input stream: open, or how it ended
    line,                         \* the line being processed (or just processed)
    decoded,                      \* json.Unmarshal of line succeeded
    req,                          \* the decoded Request
    resp,                         \* the Response built for it
    invoked,                      \* dispatcher handlers invoked for this line
    calls,                        \* collaborator handlers invoked for this line
    written,                      \* documents written to the output for this line
    output,                       \* the output: for each document, the number of the
                                  \* line it answers
    initialized,                  \* the running session has handled an initialize
                                  \* request or an initialized notification
    stdout,                       \* what reached os.Stdout for this line, chunk by chunk
    registered,                   \* history: the arguments of the last Register call
                                  \* for each family and key
    back,                         \* a written document decoded again into a Response
    mu,                           \* Registry.mu, the sync.RWMutex
    goroutines                    \* where each goroutine using the registry stands

registry ==
    <<tools, toolHandlers, resources, resourceHandlers, prompts, promptHandlers, registered>>
wiring == <<capabilities, handlers, wirings>>
message == <<line, decoded, req, resp, invoked, calls, written, stdout>>
loop == <<pc, serveCount, ret, nread, input>>
history == <<output, initialized>>
aside == <<back, mu, goroutines>>
vars == <<registry, wiring, logLevel, loop, message, history, aside>>

EmptyMap == [k \in {} |-> ""]

\* the goroutines that use the registry, and the lock nobody holds
Goroutines == {"loop", "registrar", "lister"}
Idle == [at |-> "idle", op |-> "none", arg |-> <<>>]
Unlocked == [writer |-> "none", readers |-> {}, pending |-> <<>>, blocked |-> {}]
NoDocument == Marshal(NoResponse)
\* m[k] = v in a Go map
Put(m, k, v) == [x \in DOMAIN m \cup {k} |-> IF x = k THEN v ELSE m[x]]
Values(m) == {m[k] : k \in DOMAIN m}

\* NewServer: NewRegistry's empty maps, jsonrpc.NewServer's empty handlers,
\* the zero ServerCapabilities; main sets the logger's level before serving
Init ==
    /\ tools = EmptyMap /\ toolHandlers = EmptyMap
    /\ resources = EmptyMap /\ resourceHandlers = EmptyMap
    /\ prompts = EmptyMap /\ promptHandlers = EmptyMap
    /\ capabilities = {}
    /\ handlers = EmptyMap
    /\ logLevel = "DebugLevel"
    /\ pc = "idle"
    /\ serveCount = 0
    /\ wirings = 0
    /\ ret = "none"
    /\ nread = 0
    /\ input = "open"
    /\ line = NoLine
    /\ decoded = FALSE
    /\ req = ZeroRequest
    /\ resp = NoResponse
    /\ invoked = <<>>
    /\ calls = <<>>
    /\ written = <<>>
    /\ output = <<>>
    /\ initialized = FALSE
    /\ stdout = <<>>
    /\ registered = EmptyMap
    /\ back = NoResponse
    /\ mu = Unlocked
    /\ goroutines = [g \in Goroutines |-> Idle]

(***************************************************************************)
(* Registration (Server.RegisterTool -> Registry.RegisterTool, ...).       *)
(***************************************************************************)
\* mutant: a name that is registered keeps its first tool and handler
RegisterToolKeepFirst(tool, handler) ==
    /\ tools' = IF tool.name \in DOMAIN tools THEN tools ELSE Put(tools, tool.name, tool)
    /\ toolHandlers' = IF tool.name \in DOMAIN toolHandlers THEN toolHandlers
                       ELSE Put(toolHandlers, tool.name, handler)
    /\ registered' = Put(registered, <<"tools", tool.name>>, <<tool, handler>>)
    /\ UNCHANGED <<resources, resourceHandlers, prompts, promptHandlers>>
    /\ UNCHANGED <<wiring, logLevel, loop, message, history, aside>>

RegisterTool(tool, handler) ==
    /\ tools' = Put(tools, tool.name, tool)
    /\ toolHandlers' = Put(toolHandlers, tool.name, handler)
    /\ registered' = Put(registered, <<"tools", tool.name>>, <<tool, handler>>)
    /\ UNCHANGED <<resources, resourceHandlers, prompts, promptHandlers>>
    /\ UNCHANGED <<wiring, logLevel, loop, message, history, aside>>

\* mutant: the resource is stored, its handler is not
RegisterResourceMetadataOnly(resource, handler) ==
    /\ resources' = Put(resources, resource.uri, resource)
    /\ resourceHandlers' = resourceHandlers
    /\ registered' = Put(registered, <<"resources", resource.uri>>, <<resource, handler>>)
    /\ UNCHANGED <<tools, toolHandlers, prompts, promptHandlers>>
    /\ UNCHANGED <<wiring, logLevel, loop, message, history, aside>>

RegisterResource(resource, handler) ==
    /\ resources' = Put(resources, resource.uri, resource)
    /\ resourceHandlers' = Put(resourceHandlers, resource.uri, handler)
    /\ registered' = Put(registered, <<"resources", resource.uri>>, <<resource, handler>>)
    /\ UNCHANGED <<tools, toolHandlers, prompts, promptHandlers>>
    /\ UNCHANGED <<wiring, logLevel, loop, message, history, aside>>

RegisterPrompt(prompt, handler) ==
    /\ prompts' = Put(prompts, prompt.name, prompt)
    /\ promptHandlers' = Put(promptHandlers, prompt.name, handler)
    /\ registered' = Put(registered, <<"prompts", prompt.name>>, <<prompt, handler>>)
    /\ UNCHANGED <<tools, toolHandlers, resources, resourceHandlers>>
    /\ UNCHANGED <<wiring, logLevel, loop, message, history, aside>>

(***************************************************************************)
(* Wiring (Server.registerHandlers).                                       *)
(***************************************************************************)
\* mutant: every family is advertised, whatever is registered
buildCapabilitiesAll == {"logging", "tools", "resources", "prompts"}

buildCapabilities ==
    {"logging"}
    \cup (IF Cardinality(DOMAIN tools) > 0 THEN {"tools"} ELSE {})
    \cup (IF Cardinality(DOMAIN resources) > 0 THEN {"resources"} ELSE {})
    \cup (IF Cardinality(DOMAIN prompts) > 0 THEN {"prompts"} ELSE {})

RegisterMethod(hs, method, handler) == Put(hs, method, handler)

\* mutant: every method is registered, whatever the capabilities
registerHandlersAll(hs, caps) ==
    [m \in DOMAIN hs \cup KnownMethods |->
        CASE m = MethodInitialize -> "Server.handleInitialize"
          [] m = MethodPing -> "Server.handlePing"
          [] m = MethodToolsList -> "Registry.handleToolsList"
          [] m = MethodToolsCall -> "Registry.handleToolsCall"
          [] m = MethodResourcesList -> "Registry.handleResourcesList"
          [] m = MethodResourcesRead -> "Registry.handleResourcesRead"
          [] m = MethodPromptsList -> "Registry.handlePromptsList"
          [] m = MethodPromptsGet -> "Registry.handlePromptsGet"
          [] m = NotificationInitialized -> "Server.handleInitializedNotification"
          [] m = MethodLoggingSetLevel -> "Server.handleSetLogLevel"
          [] OTHER -> hs[m]]

\* the dispatcher's handlers after registerHandlers ran with capabilities caps
registerHandlers(hs, caps) ==
    LET h1 == RegisterMethod(hs, MethodInitialize, "Server.handleInitialize")
        h2 == RegisterMethod(h1, MethodPing, "Server.handlePing")
        h3 == IF "tools" \in caps
              THEN RegisterMethod(
                       RegisterMethod(h2, MethodToolsList, "Registry.handleToolsList"),
                       MethodToolsCall, "Registry.handleToolsCall")
              ELSE h2
        h4 == IF "resources" \in caps
              THEN RegisterMethod(
                       RegisterMethod(h3, MethodResourcesList, "Registry.handleResourcesList"),
                       MethodResourcesRead, "Registry.handleResourcesRead")
              ELSE h3
        h5 == IF "prompts" \in caps
              THEN RegisterMethod(
                       RegisterMethod(h4, MethodPromptsList, "Registry.handlePromptsList"),
                       MethodPromptsGet, "Registry.handlePromptsGet")
              ELSE h4
        h6 == RegisterMethod(h5, NotificationInitialized,
                             "Server.handleInitializedNotification")
    IN  RegisterMethod(h6, MethodLoggingSetLevel, "Server.handleSetLogLevel")

\* Registry.RegisterHandlers: the dispatcher's handlers after the registry
\* wired itself with capabilities caps
RegisterHandlers(hs, caps) ==
    LET h1 == RegisterMethod(hs, MethodInitialize, "Registry.handleInitialize")
        h2 == RegisterMethod(h1, MethodPing, "Registry.handlePing")
        h3 == IF "tools" \in caps
              THEN RegisterMethod(
                       RegisterMethod(h2, MethodToolsList, "Registry.handleToolsList"),
                       MethodToolsCall, "Registry.handleToolsCall")
              ELSE h2
        h4 == IF "resources" \in caps
              THEN RegisterMethod(
                       RegisterMethod(h3, MethodResourcesList, "Registry.handleResourcesList"),
                       MethodResourcesRead, "Registry.handleResourcesRead")
              ELSE h3
        h5 == IF "prompts" \in caps
              THEN RegisterMethod(
                       RegisterMethod(h4, MethodPromptsList, "Registry.handlePromptsList"),
                       MethodPromptsGet, "Registry.handlePromptsGet")
              ELSE h4
    IN  RegisterMethod(h5, NotificationInitialized,
                       "Registry.handleInitializedNotification")

(***************************************************************************)
(* The handlers the dispatcher holds.  Each yields the pair (result, err)  *)
(* the Go handler returns.                                                 *)
(***************************************************************************)
Return(result, err) == [result |-> result, err |-> err]

\* json.Unmarshal(params, &v) into a params struct: absent params (a nil
\* RawMessage) and a value that does not fit the struct are errors
ParamsParse(p) == p.kind \in {"null", "object"}
\* the name / uri / level field of the parsed params ("" when not given)
ParamsKey(p) == IF p.kind = "object" THEN p.key ELSE ""

\* mutant: the capabilities are built anew at every initialize request
handleInitializeLive(params) ==
    IF ~ParamsParse(params)
    THEN Return(NilResult, NewInvalidParamsError(<<"Invalid initialize params">>,
                                                 <<"unmarshal error">>))
    ELSE Return([Result("InitializeResult") EXCEPT
                    !.text = <<ProtocolVersion>>, !.caps = buildCapabilities,
                    !.info = ServerInfo, !.instructions = Instructions],
                NilError)

\* mutant: the params are not looked at, the instructions are left out
handleInitializeBare(params) ==
    Return([Result("InitializeResult") EXCEPT
               !.text = <<ProtocolVersion>>, !.caps = capabilities, !.info = ServerInfo],
           NilError)

handleInitialize(params) ==
    IF ~ParamsParse(params)
    THEN Return(NilResult, NewInvalidParamsError(<<"Invalid initialize params">>,
                                                 <<"unmarshal error">>))
    ELSE Return([Result("InitializeResult") EXCEPT
                    !.text = <<ProtocolVersion>>, !.caps = capabilities,
                    !.info = ServerInfo, !.instructions = Instructions],
                NilError)

handlePing(params) == Return(Result("PingResult"), NilError)

\* the Registry's own handlers of initialize, ping and the initialized
\* notification, which Registry.RegisterHandlers puts on the dispatcher
RegistryHandleInitialize(params) ==
    IF ~ParamsParse(params)
    THEN Return(NilResult, NewInvalidParamsError(<<"Invalid initialize params">>,
                                                 <<"unmarshal error">>))
    ELSE Return([Result("InitializeResult") EXCEPT
                    !.text = <<ProtocolVersion>>, !.caps = capabilities,
                    !.info = ServerInfo, !.instructions = Instructions],
                NilError)

RegistryHandlePing(params) == Return(Result("PingResult"), NilError)

RegistryHandleInitializedNotification(params) == Return(NilResult, NilError)

handleInitializedNotification(params) == Return(NilResult, NilError)

\* mutant: a level outside the table is accepted and ignored
handleSetLogLevelLenient(params) ==
    IF ~ParamsParse(params)
    THEN Return(NilResult, NewInvalidParamsError(<<"Invalid logging params">>,
                                                 <<"unmarshal error">>))
    ELSE Return(Result("struct{}"), NilError)

handleSetLogLevel(params) ==
    IF ~ParamsParse(params)
    THEN Return(NilResult, NewInvalidParamsError(<<"Invalid logging params">>,
                                                 <<"unmarshal error">>))
    ELSE IF ParamsKey(params) \notin DOMAIN levelMap
    THEN Return(NilResult, NewInvalidParamsError(<<"Unknown log level">>,
                                                 <<ParamsKey(params)>>))
    ELSE Return(Result("struct{}"), NilError)

\* the logger's level after handleSetLogLevel(params)
SetLevel(params) ==
    IF ParamsParse(params) /\ ParamsKey(params) \in DOMAIN levelMap
    THEN levelMap[ParamsKey(params)]
    ELSE logLevel

\* mutant: every entry is appended twice
ItemsTwice(m) == [e \in Values(m) |-> 2 * Cardinality({k \in DOMAIN m : m[k] = e})]

\* for _, e := range m { list = append(list, e) }: one append per key
Items(m) == [e \in Values(m) |-> Cardinality({k \in DOMAIN m : m[k] = e})]

ListResult(t, m) == [Result(t) EXCEPT !.items = Items(m)]

handleToolsList(params) == Return(ListResult("ToolListResult", tools), NilError)

handleResourcesList(params) ==
    Return(ListResult("ListResourcesResult", resources), NilError)

handlePromptsList(params) == Return(ListResult("ListPromptsResult", prompts), NilError)

(***************************************************************************)
(* tools/call, resources/read, prompts/get up to the collaborator's        *)
(* handler: parse the params, look the handler up.  found says the         *)
(* collaborator's handler is to be invoked; otherwise ret is returned.     *)
(***************************************************************************)
Lookup(found, handler, r) == [found |-> found, handler |-> handler, ret |-> r]

\* mutant: the handler of some registered tool, not the one of the name asked for
handleToolsCallLookupAny(params) ==
    IF ~ParamsParse(params)
    THEN Lookup(FALSE, "", Return(NilResult,
             NewInvalidParamsError(<<"Invalid tool call params">>, <<"unmarshal error">>)))
    ELSE IF ParamsKey(params) \notin DOMAIN toolHandlers
    THEN Lookup(FALSE, "", Return(NilResult,
             NewInvalidParamsError(<<"Tool '%s' not found", ParamsKey(params)>>, <<>>)))
    ELSE Lookup(TRUE, toolHandlers[CHOOSE n \in DOMAIN toolHandlers : TRUE],
                Return(NilResult, NilError))

\* mutant: an unknown tool is reported as an internal error
handleToolsCallLookupInternal(params) ==
    IF ~ParamsParse(params)
    THEN Lookup(FALSE, "", Return(NilResult,
             NewInvalidParamsError(<<"Invalid tool call params">>, <<"unmarshal error">>)))
    ELSE IF ParamsKey(params) \notin DOMAIN toolHandlers
    THEN Lookup(FALSE, "", Return(NilResult,
             NewInternalError(<<"Tool '%s' not found", ParamsKey(params)>>, <<>>)))
    ELSE Lookup(TRUE, toolHandlers[ParamsKey(params)], Return(NilResult, NilError))

handleToolsCallLookup(params) ==
    IF ~ParamsParse(params)
    THEN Lookup(FALSE, "", Return(NilResult,
             NewInvalidParamsError(<<"Invalid tool call params">>, <<"unmarshal error">>)))
    ELSE IF ParamsKey(params) \notin DOMAIN toolHandlers
    THEN Lookup(FALSE, "", Return(NilResult,
             NewInvalidParamsError(<<"Tool '%s' not found", ParamsKey(params)>>, <<>>)))
    ELSE Lookup(TRUE, toolHandlers[ParamsKey(params)], Return(NilResult, NilError))

\* mutant: a uri that has no handler is an internal error
handleResourcesReadLookupInternal(params) ==
    IF ~ParamsParse(params)
    THEN Lookup(FALSE, "", Return(NilResult,
             NewInvalidParamsError(<<"Invalid resource read params">>, <<"unmarshal error">>)))
    ELSE IF ParamsKey(params) \notin DOMAIN resourceHandlers
    THEN Lookup(FALSE, "", Return(NilResult,
             NewInternalError(<<"Resource '%s' not found", ParamsKey(params)>>, <<>>)))
    ELSE Lookup(TRUE, resourceHandlers[ParamsKey(params)], Return(NilResult, NilError))

handleResourcesReadLookup(params) ==
    IF ~ParamsParse(params)
    THEN Lookup(FALSE, "", Return(NilResult,
             NewInvalidParamsError(<<"Invalid resource read params">>, <<"unmarshal error">>)))
    ELSE IF ParamsKey(params) \notin DOMAIN resourceHandlers
    THEN Lookup(FALSE, "", Return(NilResult,
             NewInvalidParamsError(<<"Resource '%s' not found", ParamsKey(params)>>, <<>>)))
    ELSE Lookup(TRUE, resourceHandlers[ParamsKey(params)], Return(NilResult, NilError))

handlePromptsGetLookup(params) ==
    IF ~ParamsParse(params)
    THEN Lookup(FALSE, "", Return(NilResult,
             NewInvalidParamsError(<<"Invalid prompt get params">>, <<"unmarshal error">>)))
    ELSE IF ParamsKey(params) \notin DOMAIN promptHandlers
    THEN Lookup(FALSE, "", Return(NilResult,
             NewInvalidParamsError(<<"Prompt '%s' not found", ParamsKey(params)>>, <<>>)))
    ELSE Lookup(TRUE, promptHandlers[ParamsKey(params)], Return(NilResult, NilError))

(***************************************************************************)
(* ... and from the collaborator's handler's return on.  h is the handler  *)
(* that ran, ok whether it returned a nil error.                           *)
(***************************************************************************)
\* &ToolCallResult{Content: []Content{NewTextContent(text)}, IsError: isError}
ToolCallResult(text, isError) ==
    [Result("ToolCallResult") EXCEPT !.text = text, !.isError = isError]

\* mutant: a resource's failure is folded into a success result, as tools/call does
handleResourcesReadReturnInBand(h, ok) ==
    IF ~ok
    THEN Return([Result("ReadResourceResult") EXCEPT
                    !.text = HandlerFailure(h), !.isError = TRUE], NilError)
    ELSE Return([Result("ReadResourceResult") EXCEPT !.text = HandlerText(h)], NilError)

\* mutant: a tool's failure is returned as a JSON-RPC error, as resources/read does
handleToolsCallReturnAsError(h, ok) ==
    IF ~ok
    THEN Return(NilResult, NewInternalError(<<"Tool execution failed">>, HandlerFailure(h)))
    ELSE Return(ToolCallResult(HandlerText(h), FALSE), NilError)

handleToolsCallReturn(h, ok) ==
    IF ~ok
    THEN Return(ToolCallResult(HandlerFailure(h), TRUE), NilError)
    ELSE Return(ToolCallResult(HandlerText(h), FALSE), NilError)

handleResourcesReadReturn(h, ok) ==
    IF ~ok
    THEN Return(NilResult, NewInternalError(<<"Failed to read resource">>, HandlerFailure(h)))
    ELSE Return([Result("ReadResourceResult") EXCEPT !.text = HandlerText(h)], NilError)

handlePromptsGetReturn(h, ok) ==
    IF ~ok
    THEN Return(NilResult, NewInternalError(<<"Failed to get prompt">>, HandlerFailure(h)))
    ELSE Return([Result("GetPromptResult") EXCEPT !.text = HandlerText(h)], NilError)

\* the handlers that call into a collaborator
CallingHandlers ==
    {"Registry.handleToolsCall", "Registry.handleResourcesRead", "Registry.handlePromptsGet"}

\* a method a collaborator puts on the dispatcher with RegisterMethod, and
\* its handler: a func(params json.RawMessage) (interface{}, *Error)
CustomMethod == "custom/export"
CustomHandler == "custom"

\* what the custom handler returns: a result, an error, or both, by its params
CustomHandle(params) ==
    IF ~ParamsParse(params)
    THEN Return(NilResult, NewInvalidParamsError(<<"Invalid export params">>, <<>>))
    ELSE CASE ParamsKey(params) = "ping" ->
                Return(Result("struct{}"), NilError)
           [] ParamsKey(params) = "echo" ->
                Return(Result("struct{}"),
                       NewInternalError(<<"Export failed">>, <<"export", "data">>))
           [] ParamsKey(params) = "error" ->
                Return(NilResult, NewMethodNotFoundError(<<"No such export">>, <<>>))
           [] OTHER -> Return(NilResult, NilError)

\* a dispatcher handler up to its return, or up to its collaborator call
LookupOf(handler, params) ==
    CASE handler = "Registry.handleToolsCall" -> handleToolsCallLookup(params)
      [] handler = "Registry.handleResourcesRead" -> handleResourcesReadLookup(params)
      [] handler = "Registry.handlePromptsGet" -> handlePromptsGetLookup(params)
      [] handler = "Server.handleInitialize" -> Lookup(FALSE, "", handleInitialize(params))
      [] handler = "Server.handlePing" -> Lookup(FALSE, "", handlePing(params))
      [] handler = "Server.handleInitializedNotification" ->
             Lookup(FALSE, "", handleInitializedNotification(params))
      [] handler = "Server.handleSetLogLevel" -> Lookup(FALSE, "", handleSetLogLevel(params))
      [] handler = "Registry.handleToolsList" -> Lookup(FALSE, "", handleToolsList(params))
      [] handler = "Registry.handleResourcesList" ->
             Lookup(FALSE, "", handleResourcesList(params))
      [] handler = "Registry.handlePromptsList" -> Lookup(FALSE, "", handlePromptsList(params))
      [] handler = "Registry.handleInitialize" ->
             Lookup(FALSE, "", RegistryHandleInitialize(params))
      [] handler = "Registry.handlePing" -> Lookup(FALSE, "", RegistryHandlePing(params))
      [] handler = "Registry.handleInitializedNotification" ->
             Lookup(FALSE, "", RegistryHandleInitializedNotification(params))
      [] handler = CustomHandler -> Lookup(FALSE, "", CustomHandle(params))

ReturnOf(handler, h, ok) ==
    CASE handler = "Registry.handleToolsCall" -> handleToolsCallReturn(h, ok)
      [] handler = "Registry.handleResourcesRead" -> handleResourcesReadReturn(h, ok)
      [] handler = "Registry.handlePromptsGet" -> handlePromptsGetReturn(h, ok)

(***************************************************************************)
(* The dispatcher: HandleRequest.                                          *)
(***************************************************************************)
\* mutant: whatever error a handler returns is wrapped as an internal error
RespondInternal(id, r) ==
    IF r.err.ptr # "nil"
    THEN NewErrorResponse(id, NewInternalError(<<"Internal error">>, <<r.err.Message>>))
    ELSE NewSuccessResponse(id, r.result)

\* lines 58-66: wrap a handler's (result, err) into a Response
Respond(id, r) ==
    IF r.err.ptr # "nil"
    THEN NewErrorResponse(id, r.err)
    ELSE NewSuccessResponse(id, r.result)

\* mutant: the method is looked up before the request is validated
RouteLookupFirst(r, hs) ==
    IF r.Method \in DOMAIN hs
    THEN [invoke |-> TRUE, resp |-> NoResponse]
    ELSE IF Validate(r).ptr # "nil"
    THEN [invoke |-> FALSE, resp |-> NewErrorResponse(r.ID, Validate(r))]
    ELSE [invoke |-> FALSE,
          resp |-> NewErrorResponse(r.ID,
                       NewMethodNotFoundError(<<"Method '%s' not found", r.Method>>, <<>>))]

\* mutant: an unknown method is answered without the request's id
RouteDropsId(r, hs) ==
    IF Validate(r).ptr # "nil"
    THEN [invoke |-> FALSE, resp |-> NewErrorResponse(r.ID, Validate(r))]
    ELSE IF r.Method \notin DOMAIN hs
    THEN [invoke |-> FALSE,
          resp |-> NewErrorResponse(NilID,
                       NewMethodNotFoundError(<<"Method '%s' not found", r.Method>>, <<>>))]
    ELSE [invoke |-> TRUE, resp |-> NoResponse]

\* mutant: a message without id is not dispatched at all
RouteSkipsNotifications(r, hs) ==
    IF Validate(r).ptr # "nil"
    THEN [invoke |-> FALSE, resp |-> NewErrorResponse(r.ID, Validate(r))]
    ELSE IF r.Method \notin DOMAIN hs
    THEN [invoke |-> FALSE,
          resp |-> NewErrorResponse(r.ID,
                       NewMethodNotFoundError(<<"Method '%s' not found", r.Method>>, <<>>))]
    ELSE [invoke |-> r.ID # NilID, resp |-> NoResponse]

\* mutant: before initialize only initialize, initialized and ping are served
RouteGated(r, hs) ==
    IF Validate(r).ptr # "nil"
    THEN [invoke |-> FALSE, resp |-> NewErrorResponse(r.ID, Validate(r))]
    ELSE IF r.Method \notin DOMAIN hs
    THEN [invoke |-> FALSE,
          resp |-> NewErrorResponse(r.ID,
                       NewMethodNotFoundError(<<"Method '%s' not found", r.Method>>, <<>>))]
    ELSE IF ~initialized /\ r.Method \notin {MethodInitialize, NotificationInitialized, MethodPing}
    THEN [invoke |-> FALSE,
          resp |-> NewErrorResponse(r.ID,
                       Error(ErrorInvalidRequest, <<"Server not initialized">>, <<>>))]
    ELSE [invoke |-> TRUE, resp |-> NoResponse]

\* lines 43-56: validate, then look the method up.  invoke says a handler
\* was found and is to be called; otherwise resp is returned.
Route(r, hs) ==
    IF Validate(r).ptr # "nil"
    THEN [invoke |-> FALSE, resp |-> NewErrorResponse(r.ID, Validate(r))]
    ELSE IF r.Method \notin DOMAIN hs
    THEN [invoke |-> FALSE,
          resp |-> NewErrorResponse(r.ID,
                       NewMethodNotFoundError(<<"Method '%s' not found", r.Method>>, <<>>))]
    ELSE [invoke |-> TRUE, resp |-> NoResponse]

\* a call of a collaborator's handler: the dispatcher handler it came
\* through, the key looked up, the handler found, and how it ended
Call(via, key, handler, outcome) ==
    [via |-> via, key |-> key, handler |-> handler, outcome |-> outcome]

\* json.Marshal fails on a value it cannot encode (a channel, a function, a
\* NaN) in the result or in the error's data
Encodable(r) == r.Result.type # "unencodable" /\ r.Error.Data # <<"unencodable">>

\* the stream the logger writes to (main: logger.SetOutput(os.Stderr))
\* mutant: the logger writes to the stream the responses go to
LoggerOutputStdout == "stdout"

LoggerOutput == "stderr"

\* logrus: an entry is written when the logger's level is at least the entry's
LevelOrder == <<"PanicLevel", "FatalLevel", "ErrorLevel", "WarnLevel", "InfoLevel", "DebugLevel">>
LevelIndex(l) == CHOOSE i \in 1..Len(LevelOrder) : LevelOrder[i] = l
IsLevelEnabled(l) == LevelIndex(logLevel) >= LevelIndex(l)

\* the chunks that reach os.Stdout
Document(d) == [chunk |-> "document", doc |-> d]
Newline == [chunk |-> "newline", doc |-> NoDocument]
Flush == [chunk |-> "flush", doc |-> NoDocument]
LogText == [chunk |-> "log", doc |-> NoDocument]

\* logger.Debug / Info / Error: os.Stdout after an entry of level l was logged
Log(s, l) == IF LoggerOutput = "stdout" /\ IsLevelEnabled(l) THEN Append(s, LogText) ELSE s

\* writeResponse as os.Stdout sees it: Write(respBytes), Write("\n"), Flush();
\* on a Marshal error only the logger writes
Write(s, r) ==
    IF Encodable(r)
    THEN s \o <<Document(Marshal(r)), Newline, Flush>>
    ELSE Log(s, "ErrorLevel")

\* the handlers of the initialize request and of the initialized notification
InitializeHandlers ==
    {"Server.handleInitialize", "Server.handleInitializedNotification",
     "Registry.handleInitialize", "Registry.handleInitializedNotification"}

\* HandleRequest up to the handler's return or to its collaborator call
HandleRequest ==
    /\ pc = "handle"
    /\ IF ~Route(req, handlers).invoke
       THEN /\ resp' = Route(req, handlers).resp
            /\ pc' = "write"
            /\ UNCHANGED <<invoked, calls, logLevel, initialized>>
       ELSE LET h == handlers[req.Method]
                l == LookupOf(h, req.Params)
            IN  /\ invoked' = Append(invoked, h)
                /\ initialized' = (initialized \/ h \in InitializeHandlers)
                /\ logLevel' = IF h = "Server.handleSetLogLevel"
                               THEN SetLevel(req.Params) ELSE logLevel
                /\ IF l.found
                   THEN /\ calls' = Append(calls, Call(h, ParamsKey(req.Params),
                                                        l.handler, "running"))
                        /\ pc' = "handler"
                        /\ resp' = resp
                   ELSE /\ calls' = calls
                        /\ resp' = Respond(req.ID, l.ret)
                        /\ pc' = "write"
    /\ stdout' = Log(stdout, "DebugLevel")
    /\ UNCHANGED <<registry, wiring, serveCount, ret, nread, input>>
    /\ UNCHANGED <<line, decoded, req, written, output, aside>>

\* the collaborator's handler returns, with a nil error or with a failure
HandlerReturn ==
    /\ pc = "handler"
    /\ \E ok \in BOOLEAN :
          LET c == calls[Len(calls)]
          IN  /\ resp' = Respond(req.ID, ReturnOf(c.via, c.handler, ok))
              /\ calls' = [calls EXCEPT ![Len(calls)].outcome =
                                           IF ok THEN "returned" ELSE "failed"]
    /\ pc' = "write"
    /\ UNCHANGED <<registry, wiring, logLevel, serveCount, ret, nread, input>>
    /\ UNCHANGED <<line, decoded, req, invoked, written, stdout, history, aside>>

(***************************************************************************)
(* The transport loop: jsonrpc.Server.ServeStdio.                          *)
(***************************************************************************)
\* writeResponse: the document, a newline, a flush
\* mutant: the document stays in the writer's buffer, nothing reaches the output
writeResponseBuffered(w, r) == w

\* mutant: the document is written whether or not Marshal returned an error
writeResponseUnchecked(w, r) == Append(w, Marshal(r))

\* on a Marshal error the response is logged and dropped
writeResponse(w, r) == IF Encodable(r) THEN Append(w, Marshal(r)) ELSE w


\* the output after the documents of line n were written (w before, w2 after)
Flushed(o, w, w2, n) == IF Len(w2) > Len(w) THEN Append(o, n) ELSE o

\* mutants: a line that does not decode ends the loop; end-of-stream is
\* returned as an error
AfterParseErrorReturn == "idle"
ReturnAtEOFAsError == "error"

\* the loop after a line that did not decode: continue
AfterParseError == "read"
\* what ServeStdio returns at end-of-stream and on another read error
ReturnAtEOF == "nil"
ReturnAtError == "error"

\* the message just processed went wrong
WentWrong ==
    /\ line.kind # "none"
    /\ \/ ~decoded
       \/ resp.Error.ptr # "nil"
       \/ resp.Result.isError

\* the loop's locals are gone when it is not running
ClearMessage ==
    /\ line' = NoLine /\ decoded' = FALSE /\ req' = ZeroRequest /\ resp' = NoResponse
    /\ invoked' = <<>> /\ calls' = <<>> /\ written' = <<>> /\ stdout' = <<>>

\* Server.ServeStdio (Start): wire the handlers, then enter the loop
ServeStdio ==
    /\ pc = "idle"
    /\ serveCount < MaxServe
    /\ serveCount' = serveCount + 1
    /\ capabilities' = buildCapabilities
    /\ handlers' = registerHandlers(handlers, buildCapabilities)
    /\ wirings' = wirings + 1
    /\ pc' = "read"
    /\ ret' = "none"
    /\ ClearMessage
    /\ initialized' = FALSE
    /\ UNCHANGED <<registry, logLevel, nread, input, output, aside>>

\* ReadBytes returned a line; json.Unmarshal; on an error the ParseError
\* response is written and the loop continues
ReadLine ==
    /\ pc = "read"
    /\ input = "open"
    /\ nread < MaxLines
    /\ nread' = nread + 1
    /\ invoked' = <<>>
    /\ calls' = <<>>
    /\ \E l \in Lines :
          /\ line' = l
          /\ decoded' = Unmarshal(l).ok
          /\ req' = Unmarshal(l).req
          /\ IF Unmarshal(l).ok
             THEN /\ resp' = NoResponse
                  /\ written' = <<>>
                  /\ stdout' = Log(<<>>, "DebugLevel")
                  /\ output' = output
                  /\ pc' = "handle"
             ELSE /\ resp' = NewErrorResponse(NilID,
                                 NewParseError(<<"Failed to unmarshal request">>,
                                               <<"unmarshal error">>))
                  /\ written' = writeResponse(<<>>, resp')
                  /\ stdout' = Write(Log(Log(<<>>, "DebugLevel"), "ErrorLevel"), resp')
                  /\ output' = Flushed(output, <<>>, written', nread')
                  /\ pc' = AfterParseError
    /\ UNCHANGED <<registry, wiring, logLevel, serveCount, ret, input, initialized, aside>>

\* mutant: the bytes before the end of the stream are decoded and dispatched
\* as a line is
ReadEOFDecodesFragment ==
    /\ pc = "read"
    /\ input \in {"open", "eof", "fragment"}
    /\ input' \in IF input = "open" THEN {"eof", "fragment"} ELSE {"eof"}
    /\ IF input' = "fragment"
       THEN /\ \E l \in Lines :
                    /\ line' = l
                    /\ decoded' = Unmarshal(l).ok
                    /\ req' = Unmarshal(l).req
            /\ resp' = NoResponse /\ invoked' = <<>> /\ calls' = <<>>
            /\ written' = <<>> /\ stdout' = <<>>
            /\ pc' = IF decoded' THEN "handle" ELSE "idle"
            /\ ret' = IF decoded' THEN ret ELSE ReturnAtEOF
            /\ initialized' = initialized
       ELSE /\ ret' = ReturnAtEOF
            /\ pc' = "idle"
            /\ ClearMessage
            /\ initialized' = FALSE
    /\ UNCHANGED <<registry, wiring, logLevel, serveCount, nread, output, aside>>

\* ReadBytes returned io.EOF: the stream ended after a newline ("eof") or
\* after bytes that no newline follows ("fragment"); a stream that ended
\* stays ended
ReadEOF ==
    /\ pc = "read"
    /\ input \in {"open", "eof", "fragment"}
    /\ input' \in IF input = "open" THEN {"eof", "fragment"} ELSE {"eof"}
    /\ ret' = ReturnAtEOF
    /\ pc' = "idle"
    /\ ClearMessage
    /\ initialized' = FALSE
    /\ UNCHANGED <<registry, wiring, logLevel, serveCount, nread, output, aside>>

\* ReadBytes returned another error
ReadError ==
    /\ pc = "read"
    /\ input \in {"open", "error"}
    /\ input' = "error"
    /\ ret' = ReturnAtError
    /\ pc' = "idle"
    /\ ClearMessage
    /\ initialized' = FALSE
    /\ UNCHANGED <<registry, wiring, logLevel, serveCount, nread, output, aside>>

\* lines 95-98: the response is written unless the request is a notification
Reply ==
    /\ pc = "write"
    /\ written' = IF ~IsNotification(req) THEN writeResponse(written, resp) ELSE written
    /\ stdout' = IF ~IsNotification(req) THEN Write(stdout, resp) ELSE stdout
    /\ output' = Flushed(output, written, written', nread)
    /\ pc' = "read"
    /\ UNCHANGED <<registry, wiring, logLevel, serveCount, ret, nread, input>>
    /\ UNCHANGED <<line, decoded, req, resp, invoked, calls, initialized, aside>>

(***************************************************************************)
(* The specification.                                                      *)
(***************************************************************************)
\* the collaborator may register key k in store m: it is there already, or
\* the stores hold fewer than MaxEntries keys
MayRegister(m, k) ==
    \/ k \in DOMAIN m
    \/ Cardinality(DOMAIN tools) + Cardinality(DOMAIN resources)
          + Cardinality(DOMAIN prompts) < MaxEntries

Register ==
    \/ \E n \in ToolNames, r \in Registrations :
          MayRegister(tools, n) /\ RegisterTool(Tool(n, r[1]), r[2])
    \/ \E u \in ResourceURIs, r \in Registrations :
          MayRegister(resources, u) /\ RegisterResource(Resource(u, r[1]), r[2])
    \/ \E n \in PromptNames, r \in Registrations :
          MayRegister(prompts, n) /\ RegisterPrompt(Prompt(n, r[1]), r[2])

Next ==
    \/ Register
    \/ ServeStdio
    \/ ReadLine
    \/ ReadEOF
    \/ ReadError
    \/ HandleRequest
    \/ HandlerReturn
    \/ Reply

Spec == Init /\ [][Next]_vars

\* the loop's own steps; the reads return, the handlers return
LoopStep == ReadLine \/ ReadEOF \/ ReadError \/ HandleRequest \/ HandlerReturn \/ Reply
FairSpec == Spec /\ WF_vars(LoopStep)

(***************************************************************************)
(* Properties.                                                             *)
(***************************************************************************)
\* the loop is done with the current line
Completed == pc = "read" /\ line.kind # "none"
\* HandleRequest has built the response of the current line
Responded == pc \in {"write", "read"} /\ decoded
ErrorCode(r) == r.Error.Code
IsErrorResponse(r) == r.Error.ptr # "nil" /\ r.Result.type = "nil"
IsSuccessResponse(r) == r.Error.ptr = "nil"
ValidRequest(r) == r.JSONRPC = "2.0" /\ r.Method # ""

\* C1: every request with a non-null id gets exactly one response line, and
\* that line carries the id the request carried.
C1_OneResponseWithSameId ==
    (Completed /\ line.kind = "object" /\ line.id.kind = "number")
        => (Len(written) = 1 /\ written[1].id = line.id)

\* C2: a notification (id omitted) never produces an output line, whatever
\* its method and whatever its handler did.
C2_NotificationWritesNothing ==
    (line.kind = "object" /\ line.id = AbsentID) => written = <<>>

C2_Witness ==
    /\ Completed /\ line.kind = "object" /\ line.id = AbsentID
    /\ invoked # <<>>
    /\ IsSuccessResponse(resp) /\ resp.Result.type # "nil"
    /\ written = <<>>

\* C3: a malformed line produces exactly one response, a ParseError whose id
\* is null, no handler is invoked, and the loop goes on reading.
C3_ParseErrorWithNullId ==
    (line.kind \in {"syntax", "shape"})
        => /\ pc = "read"
           /\ Len(written) = 1
           /\ written[1].hasError /\ ~written[1].hasResult
           /\ written[1].error.Code = ErrorParse
           /\ written[1].id = NullID
           /\ invoked = <<>> /\ calls = <<>>

\* C4: the loop ends only on a failed read of the input; a message that went
\* wrong never ends it, and a message after it is dispatched like any other.
C4_OnlyReadFailureEndsLoop ==
    /\ [][(pc # "idle" /\ pc' = "idle") => (pc = "read" /\ input' # "open")]_vars
    /\ [][(pc = "read" /\ WentWrong /\ nread' = nread + 1)
            => /\ line' \in Lines
               /\ Unmarshal(line').ok => (pc' = "handle" /\ req' = Unmarshal(line').req)
               /\ ~Unmarshal(line').ok => pc' = "read"]_vars

\* a message went wrong, and the loop stands at its read with input left
C4_Witness ==
    /\ pc = "read" /\ WentWrong /\ input = "open" /\ nread < MaxLines
    /\ ENABLED ReadLine

\* what the loop has left to do: lines to read, steps of the current line
Remaining ==
    IF pc = "idle" THEN 0
    ELSE 4 * (MaxLines - nread)
         + (CASE pc = "read" -> 1 [] pc = "write" -> 2 [] pc = "handler" -> 3
              [] pc = "handle" -> 4)

\* C5: at end-of-stream the loop returns nil, on another read error it
\* returns the error; and the loop returns: until it has, one of its steps
\* is enabled, and each of its steps brings it closer to its return.
C5_ReturnsNilAtEOFAndTheErrorOtherwise ==
    /\ [][(pc = "read" /\ pc' = "idle")
            => \/ (input' \in {"eof", "fragment"} /\ ret' = "nil")
               \/ (input' = "error" /\ ret' = "error")]_vars
    /\ [](pc # "idle" => ENABLED LoopStep)
    /\ [][(pc # "idle" /\ <<pc, nread>>' # <<pc, nread>>)
            => Remaining' < Remaining]_vars

C5_Witness ==
    /\ pc = "idle" /\ ret = "nil" /\ input = "eof" /\ nread = MaxLines

\* C6: a valid request with a non-null id whose method has no handler yields
\* MethodNotFound with the request's id, and no handler is invoked.
C6_UnknownMethodIsMethodNotFound ==
    (Responded /\ ValidRequest(req) /\ ~IsNotification(req)
       /\ req.Method \notin DOMAIN handlers)
        => /\ IsErrorResponse(resp)
           /\ ErrorCode(resp) = ErrorMethodNotFound
           /\ resp.ID = req.ID
           /\ invoked = <<>> /\ calls = <<>>

C6_Witness ==
    /\ Completed /\ req.Method = "nope" /\ req.JSONRPC = "2.0" /\ req.ID # NilID
    /\ Len(written) = 1 /\ written[1].error.Code = ErrorMethodNotFound

\* C7: a request whose jsonrpc is not "2.0" or whose method is empty yields
\* InvalidRequest with the request's id, and no handler is looked up or
\* invoked, even when the method is registered.
C7_ValidationComesFirst ==
    (Responded /\ ~ValidRequest(req))
        => /\ IsErrorResponse(resp)
           /\ ErrorCode(resp) = ErrorInvalidRequest
           /\ resp.ID = req.ID
           /\ invoked = <<>> /\ calls = <<>>

C7_Witness ==
    /\ Responded /\ req.JSONRPC = "1.0" /\ req.Method \in DOMAIN handlers
    /\ req.ID # NilID
    /\ ErrorCode(resp) = ErrorInvalidRequest /\ invoked = <<>>

\* a valid tools/call request whose params parse and name tool T
ToolsCallFor(T) ==
    /\ decoded /\ ValidRequest(req) /\ req.Method = MethodToolsCall
    /\ ParamsParse(req.Params) /\ ParamsKey(req.Params) = T

\* HandleRequest invokes T's registered handler, once, and no other
InvokesHandlerOf(T) ==
    /\ pc' = "handler"
    /\ calls' = <<Call("Registry.handleToolsCall", T, toolHandlers[T], "running")>>

\* the tool's handler returned without a failure: the response is a success
\* with the request's id and, as result, what the handler returned
ReturnsHandlersResult ==
    (pc = "handler" /\ pc' = "write" /\ calls[1].via = "Registry.handleToolsCall"
       /\ calls'[1].outcome = "returned")
        => /\ resp' = NewSuccessResponse(req.ID,
                          ToolCallResult(HandlerText(calls[1].handler), FALSE))
           /\ Len(calls') = 1

\* C8 as stated: for every registered tool T, a tools/call request naming T
\* invokes T's registered handler once and no other, and a handler that
\* succeeds has its result returned under the request's id.
C8_ToolsCallReachesRegisteredHandler ==
    /\ [][\A T \in ToolNames :
            (pc = "handle" /\ pc' # "handle" /\ ToolsCallFor(T)
               /\ T \in DOMAIN toolHandlers)
                => InvokesHandlerOf(T)]_vars
    /\ [][ReturnsHandlersResult]_vars

\* C8 amended: the same, for a server whose dispatcher holds tools/call (some
\* tool was registered when the methods were wired).
C8_WiredToolsCallReachesRegisteredHandler ==
    /\ [][\A T \in ToolNames :
            (pc = "handle" /\ pc' # "handle" /\ ToolsCallFor(T)
               /\ T \in DOMAIN toolHandlers /\ MethodToolsCall \in DOMAIN handlers)
                => InvokesHandlerOf(T)]_vars
    /\ [][ReturnsHandlersResult]_vars

C8_Witness ==
    /\ pc = "write" /\ ToolsCallFor("echo")
    /\ DOMAIN toolHandlers = {"ping", "echo"} /\ toolHandlers["ping"] # toolHandlers["echo"]
    /\ calls = <<Call("Registry.handleToolsCall", "echo", toolHandlers["echo"], "returned")>>
    /\ resp = NewSuccessResponse(req.ID,
                  ToolCallResult(HandlerText(toolHandlers["echo"]), FALSE))
    /\ req.ID # NilID

\* a valid tools/call request whose params parse and name no registered tool
ToolsCallForUnregistered ==
    /\ Responded /\ ValidRequest(req) /\ req.Method = MethodToolsCall
    /\ ParamsParse(req.Params) /\ ParamsKey(req.Params) \notin DOMAIN toolHandlers

\* C9 as stated: tools/call for a name that is no registered tool returns
\* InvalidParams, whatever tools were registered when the methods were wired.
C9_UnregisteredToolIsInvalidParams ==
    ToolsCallForUnregistered
        => (IsErrorResponse(resp) /\ ErrorCode(resp) = ErrorInvalidParams)

\* C9 amended: it returns InvalidParams when the dispatcher holds tools/call
\* (some tool was registered when the methods were wired), and
\* MethodNotFound when it does not; never a success, and no handler runs.
C9_UnregisteredToolIsInvalidParamsWhenWired ==
    ToolsCallForUnregistered
        => /\ IsErrorResponse(resp)
           /\ calls = <<>>
           /\ ErrorCode(resp) = IF MethodToolsCall \in DOMAIN handlers
                                THEN ErrorInvalidParams
                                ELSE ErrorMethodNotFound

C9_Witness ==
    /\ ToolsCallForUnregistered /\ Completed
    /\ MethodToolsCall \in DOMAIN handlers
    /\ ParamsKey(req.Params) = "error"
    /\ Len(written) = 1 /\ written[1].error.Code = ErrorInvalidParams

\* C10: a registered tool's handler fails: the response is a success (no
\* error object) whose result has isError set and whose content is a text
\* block holding the failure's message.
ToolFailed ==
    /\ Responded /\ calls # <<>>
    /\ calls[1].via = "Registry.handleToolsCall" /\ calls[1].outcome = "failed"

C10_ToolFailureIsInBandError ==
    /\ ToolFailed
         => /\ IsSuccessResponse(resp)
            /\ resp.Result.type = "ToolCallResult"
            /\ resp.Result.isError
            /\ resp.Result.text = HandlerFailure(calls[1].handler)
    /\ (ToolFailed /\ written # <<>>)
         => /\ written[1].hasResult /\ ~written[1].hasError
            /\ written[1].result = resp.Result

C10_Witness ==
    /\ ToolFailed /\ Completed
    /\ Len(written) = 1 /\ written[1].hasResult /\ written[1].result.isError
    /\ written[1].result.text = HandlerFailure(toolHandlers[ParamsKey(req.Params)])

\* a collaborator's handler reached through dispatcher handler via failed
FailedVia(via) ==
    /\ Responded /\ calls # <<>>
    /\ calls[1].via = via /\ calls[1].outcome = "failed"

\* C11: a resource handler or a prompt handler fails: the response is a
\* JSON-RPC error with code InternalError and no result, on the value
\* HandleRequest returns and on the line written; a failing tool handler, the
\* opposite, yields a response with no error.
C11_ResourceAndPromptFailureIsInternalError ==
    /\ \A via \in {"Registry.handleResourcesRead", "Registry.handlePromptsGet"} :
          FailedVia(via)
            => /\ IsErrorResponse(resp) /\ ErrorCode(resp) = ErrorInternal
               /\ resp.ID = req.ID
               /\ written # <<>> => (written[1].hasError /\ ~written[1].hasResult
                                       /\ written[1].error.Code = ErrorInternal)
    /\ FailedVia("Registry.handleToolsCall") => IsSuccessResponse(resp)

C11_Witness ==
    /\ FailedVia("Registry.handleResourcesRead") /\ Completed
    /\ Len(written) = 1 /\ written[1].error.Code = ErrorInternal
    /\ written[1].error.Data = HandlerFailure(resourceHandlers["ping"])

\* the three list methods, each with the store it lists
ListMethods == {MethodToolsList, MethodResourcesList, MethodPromptsList}
StoreOf(m) ==
    CASE m = MethodToolsList -> tools
      [] m = MethodResourcesList -> resources
      [] m = MethodPromptsList -> prompts
KeyOf(m, e) == IF m = MethodResourcesList THEN e.uri ELSE e.name

\* HandleRequest answers the list request with exactly the entries of the
\* store as it is now: each entry once, one per key, none missing
ListsTheStore(m) ==
    /\ IsSuccessResponse(resp') /\ resp'.ID = req.ID
    /\ DOMAIN resp'.Result.items = Values(StoreOf(m))
    /\ \A e \in DOMAIN resp'.Result.items : resp'.Result.items[e] = 1
    /\ {KeyOf(m, e) : e \in DOMAIN resp'.Result.items} = DOMAIN StoreOf(m)
    /\ Cardinality(DOMAIN resp'.Result.items) = Cardinality(DOMAIN StoreOf(m))

\* HandleRequest is answering a valid request for list method m
AnswersList(m) ==
    /\ pc = "handle" /\ pc' # "handle"
    /\ ValidRequest(req) /\ req.Method = m

\* C12 as stated: after any sequence of registrations a list request is
\* answered with exactly the entries registered at the time of the request,
\* for every number of entries including 0.
C12_ListReturnsRegisteredEntries ==
    [][\A m \in ListMethods : AnswersList(m) => ListsTheStore(m)]_vars

\* C12 amended: so it is when the dispatcher holds the list method (the
\* family was not empty when the methods were wired); when it does not, the
\* request is answered MethodNotFound, and no list (not an empty one either).
C12_WiredListReturnsRegisteredEntries ==
    [][\A m \in ListMethods :
         AnswersList(m)
           => IF m \in DOMAIN handlers
              THEN ListsTheStore(m)
              ELSE /\ IsErrorResponse(resp')
                   /\ ErrorCode(resp') = ErrorMethodNotFound]_vars

C12_Witness ==
    /\ Responded /\ ValidRequest(req) /\ req.Method = MethodToolsList
    /\ req.ID # NilID
    /\ Cardinality(DOMAIN tools) = 2
    /\ IsSuccessResponse(resp)
    /\ DOMAIN resp.Result.items = Values(tools)
    /\ \A e \in DOMAIN resp.Result.items : resp.Result.items[e] = 1

\* the capability set caps says of each family what the registry holds
ReflectsRegistry(caps) ==
    /\ "tools" \in caps <=> Cardinality(DOMAIN tools) >= 1
    /\ "resources" \in caps <=> Cardinality(DOMAIN resources) >= 1
    /\ "prompts" \in caps <=> Cardinality(DOMAIN prompts) >= 1
    /\ "logging" \in caps

\* C13: whenever buildCapabilities is evaluated, what it returns has tools
\* (resources, prompts) present iff at least one tool (resource, prompt) is
\* registered then, and logging present; in particular the set stored when
\* the methods are wired reflects the registry of that moment.
C13_CapabilitiesReflectRegistry ==
    /\ [](ReflectsRegistry(buildCapabilities))
    /\ [][wirings' # wirings => (capabilities' = buildCapabilities
                                   /\ ReflectsRegistry(capabilities'))]_vars

C13_Witness ==
    /\ wirings = 1 /\ pc = "read"
    /\ capabilities = {"logging", "tools"}
    /\ DOMAIN tools # {} /\ DOMAIN resources = {} /\ DOMAIN prompts = {}

\* C14: every response written has exactly one of result and error.
C14_ExactlyOneOfResultAndError ==
    \A i \in 1..Len(written) : written[i].hasResult # written[i].hasError

\* the collaborator's handlers that were called and have not returned
InFlight == {i \in 1..Len(calls) : calls[i].outcome = "running"}

\* the message of the current line is done with: nothing in flight, and the
\* response it is owed (a ParseError for a line that did not decode, the
\* response of a request that is no notification) is the last of the output
MessageDone ==
    /\ pc = "read"
    /\ InFlight = {}
    /\ (line.kind # "none" /\ (~decoded \/ ~IsNotification(req)))
         => /\ Len(written) = 1
            /\ output # <<>> /\ output[Len(output)] = nread

\* C15: the loop is sequential: a line is read only when the message before
\* it is done with (handler returned, response written and flushed); at most
\* one handler is in flight; and the output holds the responses in the order
\* of the lines they answer, one at most for each.
C15_StrictlySequential ==
    /\ [][nread' # nread => MessageDone]_vars
    /\ [](Cardinality(InFlight) <= 1 /\ (InFlight # {} => pc = "handler"))
    /\ [](\A i, j \in 1..Len(output) : i < j => output[i] < output[j])

C15_Witness ==
    /\ pc = "read" /\ nread = 2 /\ output = <<1, 2>>
    /\ calls # <<>> /\ calls[1].outcome = "returned"

\* the methods wired whatever is registered, and those of each family
AlwaysWired ==
    {MethodInitialize, MethodPing, NotificationInitialized, MethodLoggingSetLevel}
Families == {"tools", "resources", "prompts"}
FamilyMethods(f) ==
    CASE f = "tools" -> {MethodToolsList, MethodToolsCall}
      [] f = "resources" -> {MethodResourcesList, MethodResourcesRead}
      [] f = "prompts" -> {MethodPromptsList, MethodPromptsGet}
FamilyStore(f) ==
    CASE f = "tools" -> tools [] f = "resources" -> resources [] f = "prompts" -> prompts

\* C16: a wiring registers the methods of a family iff the family's registry
\* is not empty then, and the four other methods always; no other step (a
\* registration after wiring least of all) adds or removes a dispatcher
\* method; a request to a family method the dispatcher does not hold is
\* answered MethodNotFound and reaches no handler, whatever is registered by
\* then.
C16_WiringIsCapabilityConditional ==
    /\ [][wirings' # wirings
            => /\ AlwaysWired \subseteq DOMAIN handlers'
               /\ \A f \in Families :
                     /\ (DOMAIN FamilyStore(f) # {}) => FamilyMethods(f) \subseteq DOMAIN handlers'
                     /\ (DOMAIN FamilyStore(f) = {}) => FamilyMethods(f) \cap DOMAIN handlers' = {}]_vars
    /\ [][wirings' = wirings => handlers' = handlers]_vars
    /\ [](\A f \in Families :
            (Responded /\ ValidRequest(req) /\ req.Method \in FamilyMethods(f)
               /\ req.Method \notin DOMAIN handlers)
              => /\ IsErrorResponse(resp) /\ ErrorCode(resp) = ErrorMethodNotFound
                 /\ invoked = <<>> /\ calls = <<>>)

C16_Witness ==
    /\ wirings = 1 /\ DOMAIN tools # {} /\ MethodToolsList \notin DOMAIN handlers
    /\ AlwaysWired \subseteq DOMAIN handlers
    /\ Completed /\ ValidRequest(req) /\ req.Method = MethodToolsList
    /\ Len(written) = 1 /\ written[1].error.Code = ErrorMethodNotFound

\* an initialize request with parseable params was answered
InitializeAnswered ==
    /\ Responded /\ ValidRequest(req) /\ req.Method = MethodInitialize
    /\ ParamsParse(req.Params)

\* C17: the capability set is computed by the wiring, before the loop
\* begins, and by nothing else; every initialize response of the session
\* carries it as the wiring built it, whatever was registered since.
C17_CapabilitiesFrozenAtWiring ==
    /\ [][capabilities' # capabilities => (wirings' # wirings /\ pc = "idle")]_vars
    /\ [](pc # "idle" => (wirings >= 1 /\ "logging" \in capabilities))
    /\ [](InitializeAnswered
            => (IsSuccessResponse(resp) /\ resp.Result.caps = capabilities))

C17_Witness ==
    /\ InitializeAnswered /\ Completed /\ Len(written) = 1
    /\ written[1].result.caps = capabilities
    /\ capabilities = {"logging"}
    /\ buildCapabilities = {"logging", "tools", "prompts"}

\* C18: build the capabilities and register the methods is executed at most
\* once over the life of a Server, whatever calls the collaborator makes.
C18_WiredAtMostOnce == wirings <= 1

\* what HandleRequest owes request r by the request, the dispatcher's
\* methods and the registry alone, when no collaborator's handler is called
Owed(r) ==
    IF ~ValidRequest(r)
    THEN NewErrorResponse(r.ID, Validate(r))
    ELSE IF r.Method \notin DOMAIN handlers
    THEN NewErrorResponse(r.ID,
             NewMethodNotFoundError(<<"Method '%s' not found", r.Method>>, <<>>))
    ELSE Respond(r.ID, LookupOf(handlers[r.Method], r.Params).ret)

\* request r is to reach a collaborator's handler
OwedCall(r) ==
    /\ ValidRequest(r) /\ r.Method \in DOMAIN handlers
    /\ LookupOf(handlers[r.Method], r.Params).found

\* C19: no method is gated on initialize: whether or not the session has
\* handled an initialize request or an initialized notification, the
\* response is the one owed by the request, the dispatcher's methods, the
\* registry and the outcome of the collaborator's handler.
C19_NoMethodGatedOnInitialize ==
    /\ [][(pc = "handle" /\ pc' # "handle")
            => IF OwedCall(req) THEN pc' = "handler"
               ELSE pc' = "write" /\ resp' = Owed(req)]_vars
    /\ [][(pc = "handler" /\ pc' # "handler")
            => resp' = Respond(req.ID,
                           ReturnOf(calls[1].via, calls[1].handler,
                                    calls'[1].outcome = "returned"))]_vars

C19_Witness ==
    /\ ~initialized /\ nread = 2 /\ Completed
    /\ ValidRequest(req) /\ req.Method = MethodToolsCall
    /\ calls # <<>> /\ calls[1].outcome = "returned"
    /\ Len(written) = 1 /\ written[1].hasResult

\* the InitializeResult of this server
InitializeResult ==
    [type |-> "InitializeResult", text |-> <<"2025-11-25">>, isError |-> FALSE,
     items |-> NoItems, caps |-> capabilities, info |-> "mcp-server-store 0.1.0",
     instructions |-> "A store management MCP server."]

\* C20: an initialize request whose params parse is answered with the
\* protocol version literal, the capability set of the wiring, the server's
\* name and version and its instructions; one whose params do not parse is
\* answered InvalidParams.
C20_InitializeResult ==
    (Responded /\ ValidRequest(req) /\ req.Method = MethodInitialize)
        => IF ParamsParse(req.Params)
           THEN resp = NewSuccessResponse(req.ID, InitializeResult)
           ELSE /\ IsErrorResponse(resp) /\ ErrorCode(resp) = ErrorInvalidParams
                /\ resp.ID = req.ID

C20_Witness ==
    /\ Completed /\ ValidRequest(req) /\ req.Method = MethodInitialize
    /\ req.Params.kind = "object"
    /\ Len(written) = 1 /\ written[1].result = InitializeResult
    /\ capabilities = {"logging", "tools", "resources"}

(***************************************************************************)
(* logging/setLevel on its own: the loop has read a logging/setLevel line  *)
(* of a wired server whose logger is at any level; the params name every   *)
(* level of the table and some that are not in it.                         *)
(***************************************************************************)
LogrusLevels ==
    {"PanicLevel", "FatalLevel", "ErrorLevel", "WarnLevel", "InfoLevel", "DebugLevel"}
LevelKeys == DOMAIN levelMap \cup {"", "ping", "DEBUG", "trace"}
SetLevelLines ==
    {ObjectLine("2.0", MethodLoggingSetLevel, p, i) :
        p \in {AbsentParams, NullParams, BadParams} \cup {ObjectParams(k) : k \in LevelKeys},
        i \in IDTokens}

LoggingInit ==
    /\ tools = EmptyMap /\ toolHandlers = EmptyMap
    /\ resources = EmptyMap /\ resourceHandlers = EmptyMap
    /\ prompts = EmptyMap /\ promptHandlers = EmptyMap
    /\ capabilities = buildCapabilities
    /\ handlers = registerHandlers(EmptyMap, capabilities)
    /\ logLevel \in LogrusLevels
    /\ pc = "handle"
    /\ serveCount = 1
    /\ wirings = 1
    /\ ret = "none"
    /\ nread = 1
    /\ input = "open"
    /\ line \in SetLevelLines
    /\ decoded = Unmarshal(line).ok
    /\ req = Unmarshal(line).req
    /\ resp = NoResponse
    /\ invoked = <<>>
    /\ calls = <<>>
    /\ written = <<>>
    /\ output = <<>>
    /\ initialized = FALSE
    /\ stdout = <<>>
    /\ registered = EmptyMap
    /\ back = NoResponse
    /\ mu = Unlocked
    /\ goroutines = [g \in Goroutines |-> Idle]

LoggingNext == HandleRequest \/ Reply

LoggingSpec == LoggingInit /\ [][LoggingNext]_vars

\* the level each recognised name stands for
LevelNamed(k) ==
    CASE k = "debug" -> "DebugLevel"
      [] k \in {"info", "notice"} -> "InfoLevel"
      [] k = "warning" -> "WarnLevel"
      [] k = "error" -> "ErrorLevel"
      [] k \in {"critical", "alert"} -> "FatalLevel"
      [] k = "emergency" -> "PanicLevel"
RecognisedLevels ==
    {"debug", "info", "notice", "warning", "error", "critical", "alert", "emergency"}

\* C21: logging/setLevel with one of the eight levels sets the logger's
\* level and returns an empty success result; with params that do not parse
\* or with any other level it returns InvalidParams and leaves the level.
C21_SetLevel ==
    [][(pc = "handle" /\ pc' # "handle" /\ ValidRequest(req)
          /\ req.Method = MethodLoggingSetLevel)
        => IF ParamsParse(req.Params) /\ ParamsKey(req.Params) \in RecognisedLevels
           THEN /\ resp' = NewSuccessResponse(req.ID, Result("struct{}"))
                /\ logLevel' = LevelNamed(ParamsKey(req.Params))
           ELSE /\ IsErrorResponse(resp') /\ ErrorCode(resp') = ErrorInvalidParams
                /\ resp'.ID = req.ID
                /\ logLevel' = logLevel]_vars

C21_Witness ==
    /\ Completed /\ req.Method = MethodLoggingSetLevel
    /\ ParamsKey(req.Params) = "critical" /\ logLevel = "FatalLevel"
    /\ Len(written) = 1 /\ written[1].hasResult /\ written[1].result = Result("struct{}")

(***************************************************************************)
(* Registration over an entry that is there: the server as NewServer left  *)
(* it and RegisterTool(ping/d1, h1) extended it; the client sends valid    *)
(* list, call, read and get requests.                                      *)
(***************************************************************************)
RegistrationInit ==
    /\ tools = Put(EmptyMap, "ping", Tool("ping", "d1"))
    /\ toolHandlers = Put(EmptyMap, "ping", "h1")
    /\ registered = Put(EmptyMap, <<"tools", "ping">>, <<Tool("ping", "d1"), "h1">>)
    /\ resources = EmptyMap /\ resourceHandlers = EmptyMap
    /\ prompts = EmptyMap /\ promptHandlers = EmptyMap
    /\ capabilities = {}
    /\ handlers = EmptyMap
    /\ logLevel = "DebugLevel"
    /\ pc = "idle"
    /\ serveCount = 0
    /\ wirings = 0
    /\ ret = "none"
    /\ nread = 0
    /\ input = "open"
    /\ line = NoLine
    /\ decoded = FALSE
    /\ req = ZeroRequest
    /\ resp = NoResponse
    /\ invoked = <<>>
    /\ calls = <<>>
    /\ written = <<>>
    /\ output = <<>>
    /\ initialized = FALSE
    /\ stdout = <<>>
    /\ back = NoResponse
    /\ mu = Unlocked
    /\ goroutines = [g \in Goroutines |-> Idle]

ReadFamilyLine ==
    /\ ReadLine
    /\ decoded' /\ ValidRequest(req')
    /\ \E f \in Families : req'.Method \in FamilyMethods(f)

RegistrationNext ==
    \/ Register
    \/ ServeStdio
    \/ ReadFamilyLine
    \/ ReadEOF
    \/ ReadError
    \/ HandleRequest
    \/ HandlerReturn
    \/ Reply

RegistrationSpec == RegistrationInit /\ [][RegistrationNext]_vars

FamilyHandlers(f) ==
    CASE f = "tools" -> toolHandlers
      [] f = "resources" -> resourceHandlers
      [] f = "prompts" -> promptHandlers
FamilyList(f) ==
    CASE f = "tools" -> MethodToolsList
      [] f = "resources" -> MethodResourcesList
      [] f = "prompts" -> MethodPromptsList
FamilyCall(f) ==
    CASE f = "tools" -> MethodToolsCall
      [] f = "resources" -> MethodResourcesRead
      [] f = "prompts" -> MethodPromptsGet
FamilyVia(f) ==
    CASE f = "tools" -> "Registry.handleToolsCall"
      [] f = "resources" -> "Registry.handleResourcesRead"
      [] f = "prompts" -> "Registry.handlePromptsGet"

\* the keys family f was registered under so far
Registered(f) == {k \in Names : <<f, k>> \in DOMAIN registered}

\* each family holds one entry per registered key: the entry and the handler
\* of the last registration under that key
HoldsLastRegistration ==
    \A f \in Families :
        /\ DOMAIN FamilyStore(f) = Registered(f)
        /\ DOMAIN FamilyHandlers(f) = Registered(f)
        /\ \A k \in Registered(f) :
              /\ FamilyStore(f)[k] = registered[<<f, k>>][1]
              /\ FamilyHandlers(f)[k] = registered[<<f, k>>][2]

\* the keys whose entry or handler this step adds or changes
ChangedEntries ==
    {fk \in Families \X Names :
        LET f == fk[1]
            k == fk[2]
        IN  \/ (k \in DOMAIN FamilyStore(f)') # (k \in DOMAIN FamilyStore(f))
            \/ (k \in DOMAIN FamilyHandlers(f)') # (k \in DOMAIN FamilyHandlers(f))
            \/ /\ k \in DOMAIN FamilyStore(f) /\ k \in DOMAIN FamilyStore(f)'
               /\ FamilyStore(f)'[k] # FamilyStore(f)[k]
            \/ /\ k \in DOMAIN FamilyHandlers(f) /\ k \in DOMAIN FamilyHandlers(f)'
               /\ FamilyHandlers(f)'[k] # FamilyHandlers(f)[k]}

\* HandleRequest is answering a valid request for method m
Answering(m) ==
    /\ pc = "handle" /\ pc' # "handle"
    /\ ValidRequest(req) /\ req.Method = m

\* the list of family f shows the entries last registered, each once
ShowsLastRegistered(f) ==
    /\ IsSuccessResponse(resp') /\ resp'.ID = req.ID
    /\ DOMAIN resp'.Result.items = {registered[<<f, k>>][1] : k \in Registered(f)}
    /\ \A e \in DOMAIN resp'.Result.items : resp'.Result.items[e] = 1

\* the call of family f invokes the handler last registered under the key
\* asked for, and no other
InvokesLastRegistered(f) ==
    /\ pc' = "handler"
    /\ calls' = <<Call(FamilyVia(f), ParamsKey(req.Params),
                       registered[<<f, ParamsKey(req.Params)>>][2], "running")>>

AsksForRegistered(f) ==
    /\ Answering(FamilyCall(f))
    /\ ParamsParse(req.Params) /\ ParamsKey(req.Params) \in Registered(f)

\* C24 as stated: registration is insert-or-replace, last write wins: the
\* registry holds one entry per key, that of the last registration; a
\* registration leaves the entries under other keys unchanged; the list
\* shows the last registered metadata and the call invokes the last
\* registered handler, never an earlier one.
C24_LastWriteWins ==
    /\ []HoldsLastRegistration
    /\ [][Cardinality(ChangedEntries) <= 1]_vars
    /\ [][\A f \in Families :
            /\ Answering(FamilyList(f)) => ShowsLastRegistered(f)
            /\ AsksForRegistered(f) => InvokesLastRegistered(f)]_vars

\* C24 where the family's methods are on the dispatcher; where they are not
\* the request is answered MethodNotFound and no handler is invoked.
C24_LastWriteWinsWhenWired ==
    /\ []HoldsLastRegistration
    /\ [][Cardinality(ChangedEntries) <= 1]_vars
    /\ [][\A f \in Families :
            /\ Answering(FamilyList(f)) =>
                  IF FamilyList(f) \in DOMAIN handlers
                  THEN ShowsLastRegistered(f)
                  ELSE /\ ErrorCode(resp') = ErrorMethodNotFound
                       /\ calls' = <<>>
            /\ AsksForRegistered(f) =>
                  IF FamilyCall(f) \in DOMAIN handlers
                  THEN InvokesLastRegistered(f)
                  ELSE /\ ErrorCode(resp') = ErrorMethodNotFound
                       /\ calls' = <<>>]_vars

\* ping was registered with d1/h1, then again with d2/h2; a call of ping runs h2
C24_Witness ==
    /\ tools["ping"] = Tool("ping", "d2") /\ toolHandlers["ping"] = "h2"
    /\ pc = "handler"
    /\ calls = <<Call("Registry.handleToolsCall", "ping", "h2", "running")>>

\* the request asks family f's call method for a key that has no handler, or
\* with params that are absent or do not parse
AsksInVain(f) ==
    /\ Answering(FamilyCall(f))
    /\ \/ ~ParamsParse(req.Params)
       \/ f # "tools" /\ ParamsKey(req.Params) \notin DOMAIN FamilyHandlers(f)

RefusedAs(code) ==
    /\ IsErrorResponse(resp') /\ ErrorCode(resp') = code /\ resp'.ID = req.ID
    /\ pc' = "write" /\ calls' = <<>>

\* C28 as stated: resources/read for a uri without a handler, prompts/get
\* for a name without a handler, and tools/call, resources/read, prompts/get
\* with absent or unparseable params return InvalidParams and invoke no
\* handler.
C28_UnknownKeyOrBadParamsIsInvalidParams ==
    [][\A f \in Families : AsksInVain(f) => RefusedAs(ErrorInvalidParams)]_vars

\* C28 where the method is on the dispatcher; where it is not, the answer is
\* MethodNotFound; no handler is invoked either way.
C28_UnknownKeyOrBadParamsIsInvalidParamsWhenWired ==
    [][\A f \in Families :
          AsksInVain(f) => RefusedAs(IF FamilyCall(f) \in DOMAIN handlers
                                     THEN ErrorInvalidParams
                                     ELSE ErrorMethodNotFound)]_vars

C28_Witness ==
    /\ Completed /\ ValidRequest(req) /\ req.Method = MethodResourcesRead
    /\ MethodResourcesRead \in DOMAIN handlers
    /\ ParamsParse(req.Params) /\ ParamsKey(req.Params) = "echo"
    /\ resourceHandlers # EmptyMap
    /\ calls = <<>>
    /\ Len(written) = 1 /\ written[1].hasError /\ written[1].error.Code = ErrorInvalidParams

C26_OutputIsFramedProtocolTraffic ==
    /\ Len(stdout) = 3 * Len(written)
    /\ \A i \in 1..Len(written) :
          /\ stdout[3 * i - 2] = Document(written[i])
          /\ written[i] = Marshal(resp) /\ written[i].jsonrpc = "2.0"
          /\ stdout[3 * i - 1] = Newline
          /\ stdout[3 * i] = Flush
    /\ \A i \in 1..Len(stdout) : stdout[i] # LogText

\* a line that does not decode: the logger writes (at DebugLevel, to its own
\* stream) and the ParseError document reaches the output
C26_Witness ==
    /\ Completed /\ ~decoded /\ logLevel = "DebugLevel"
    /\ stdout = <<Document(Marshal(resp)), Newline, Flush>>

(***************************************************************************)
(* The registry wired by its own entry point: NewRegistry, NewServer of    *)
(* jsonrpc, Registry.RegisterHandlers(server), server.ServeStdio().        *)
(***************************************************************************)
RegistryServeStdio ==
    /\ pc = "idle"
    /\ serveCount < MaxServe
    /\ serveCount' = serveCount + 1
    /\ capabilities' = buildCapabilities
    /\ handlers' = RegisterHandlers(handlers, buildCapabilities)
    /\ wirings' = wirings + 1
    /\ pc' = "read"
    /\ ret' = "none"
    /\ ClearMessage
    /\ initialized' = FALSE
    /\ UNCHANGED <<registry, logLevel, nread, input, output, aside>>

\* the client sends well-formed requests and notifications
ReadValidLine ==
    /\ ReadLine
    /\ decoded' /\ ValidRequest(req')

RegistryNext ==
    \/ Register
    \/ RegistryServeStdio
    \/ ReadValidLine
    \/ ReadEOF
    \/ ReadError
    \/ HandleRequest
    \/ HandlerReturn
    \/ Reply

RegistrySpec == Init /\ [][RegistryNext]_vars

\* the methods a capability stands for
CapabilityMethods(f) ==
    IF f = "logging" THEN {MethodLoggingSetLevel} ELSE FamilyMethods(f)

\* C30: after wiring, by either entry point, the advertised capabilities and
\* the dispatch table agree: the methods of an advertised family (tools,
\* resources, prompts, logging) are all registered, and none of the methods
\* of a family that is not advertised is.
C30_CapabilitiesAgreeWithDispatch ==
    wirings > 0 =>
        \A f \in Families \cup {"logging"} :
            IF f \in capabilities
            THEN CapabilityMethods(f) \subseteq DOMAIN handlers
            ELSE CapabilityMethods(f) \cap DOMAIN handlers = {}

(***************************************************************************)
(* The codec on its own: a Response is marshalled and the document is      *)
(* unmarshalled again.  The responses are those NewSuccessResponse and     *)
(* NewErrorResponse build, over ids of every kind a caller can pass.       *)
(***************************************************************************)
CodecIDs ==
    {NilID, StringID, DecodeID(SmallID), DecodeID(BigID),
     Int64ID(0, 0), Int64ID(Float64Precision, 1)}
CodecResults == {Result("PingResult"), Result("struct{}"), Result("InitializeResult")}
CodecErrors ==
    {Error(c, <<"message">>, d) :
        c \in {ErrorParse, ErrorInvalidRequest, ErrorMethodNotFound,
               ErrorInvalidParams, ErrorInternal},
        d \in {<<>>, <<"data">>}}
CodecResponses ==
    {NewSuccessResponse(i, r) : i \in CodecIDs, r \in CodecResults}
    \cup {NewErrorResponse(i, e) : i \in CodecIDs, e \in CodecErrors}

CodecInit ==
    /\ tools = EmptyMap /\ toolHandlers = EmptyMap
    /\ resources = EmptyMap /\ resourceHandlers = EmptyMap
    /\ prompts = EmptyMap /\ promptHandlers = EmptyMap
    /\ registered = EmptyMap
    /\ capabilities = {}
    /\ handlers = EmptyMap
    /\ logLevel = "DebugLevel"
    /\ pc = "idle"
    /\ serveCount = 0
    /\ wirings = 0
    /\ ret = "none"
    /\ nread = 0
    /\ input = "open"
    /\ line = NoLine
    /\ decoded = FALSE
    /\ req = ZeroRequest
    /\ resp \in CodecResponses
    /\ invoked = <<>>
    /\ calls = <<>>
    /\ written = <<>>
    /\ output = <<>>
    /\ initialized = FALSE
    /\ stdout = <<>>
    /\ back = NoResponse
    /\ mu = Unlocked
    /\ goroutines = [g \in Goroutines |-> Idle]

\* json.Marshal(resp)
Encode ==
    /\ written = <<>>
    /\ Encodable(resp)
    /\ written' = <<Marshal(resp)>>
    /\ UNCHANGED <<registry, wiring, logLevel, loop, history, aside>>
    /\ UNCHANGED <<line, decoded, req, resp, invoked, calls, stdout>>

\* json.Unmarshal of the document into a Response
Decode ==
    /\ written # <<>>
    /\ back = NoResponse
    /\ back' = UnmarshalResponse(written[1])
    /\ UNCHANGED <<registry, wiring, logLevel, loop, message, history, mu, goroutines>>

CodecNext == Encode \/ Decode

CodecSpec == CodecInit /\ [][CodecNext]_vars

\* the same id value: nil, the same string, or the same number
SameID(a, b) ==
    /\ (a.kind = "nil") = (b.kind = "nil")
    /\ (a.kind = "string") = (b.kind = "string")
    /\ a.exp = b.exp /\ a.off = b.off

\* C27: encoding a Response and decoding the document gives a Response equal
\* to the original: the same version, id, result and error, for result-only
\* and error-only responses, errors with and without data, and every id.
C27_RoundTrip ==
    back # NoResponse
        => /\ back.JSONRPC = resp.JSONRPC
           /\ SameID(back.ID, resp.ID)
           /\ back.Result = resp.Result
           /\ back.Error = resp.Error

(***************************************************************************)
(* A response that cannot be serialized: a handler a collaborator put on   *)
(* the dispatcher with RegisterMethod returned a value json.Marshal cannot *)
(* encode, or an error whose data it cannot encode.  HandleRequest has     *)
(* returned; the loop is about to write.                                   *)
(***************************************************************************)
CustomLines == {ObjectLine("2.0", CustomMethod, AbsentParams, i) : i \in IDTokens}
CustomResults(id) ==
    {NewSuccessResponse(id, Result("unencodable")),
     NewSuccessResponse(id, Result("struct{}")),
     NewErrorResponse(id, NewInternalError(<<"Internal error">>, <<"unencodable">>)),
     NewErrorResponse(id, NewInternalError(<<"Internal error">>, <<"data">>))}

DropInit ==
    /\ tools = Put(EmptyMap, "ping", Tool("ping", "d1"))
    /\ toolHandlers = Put(EmptyMap, "ping", "h1")
    /\ registered = Put(EmptyMap, <<"tools", "ping">>, <<Tool("ping", "d1"), "h1">>)
    /\ resources = EmptyMap /\ resourceHandlers = EmptyMap
    /\ prompts = EmptyMap /\ promptHandlers = EmptyMap
    /\ capabilities = buildCapabilities
    /\ handlers = RegisterMethod(registerHandlers(EmptyMap, capabilities),
                                 CustomMethod, CustomHandler)
    /\ logLevel = "DebugLevel"
    /\ pc = "write"
    /\ serveCount = 1
    /\ wirings = 1
    /\ ret = "none"
    /\ nread = 1
    /\ input = "open"
    /\ line \in CustomLines
    /\ decoded = Unmarshal(line).ok
    /\ req = Unmarshal(line).req
    /\ resp \in CustomResults(req.ID)
    /\ invoked = <<CustomHandler>>
    /\ calls = <<>>
    /\ written = <<>>
    /\ output = <<>>
    /\ initialized = FALSE
    /\ stdout = <<>>
    /\ back = NoResponse
    /\ mu = Unlocked
    /\ goroutines = [g \in Goroutines |-> Idle]

DropNext ==
    \/ Reply
    \/ ReadLine
    \/ ReadEOF
    \/ ReadError
    \/ HandleRequest
    \/ HandlerReturn

DropSpec == DropInit /\ [][DropNext]_vars

\* the loop is about to write a response that cannot be serialized
Unserializable == ~IsNotification(req) /\ ~Encodable(resp)

\* the response of the custom request was dropped and input remains
Dropped ==
    /\ pc = "read" /\ Unserializable /\ line.method = CustomMethod
    /\ input = "open" /\ nread < MaxLines

\* C25: when serializing a response fails, nothing is written for it (no
\* document, no part of one, no newline), the loop does not end, and it goes
\* on to read the next line.
C25_UnserializableResponseIsDropped ==
    /\ [][(pc = "write" /\ Unserializable)
            => /\ written' = written /\ stdout' = stdout /\ output' = output
               /\ pc' = "read" /\ ret' = ret]_vars
    /\ [](Dropped => ENABLED ReadLine)

\* the result could not be encoded: the loop is back at reading, nothing
\* reached the output
C25_Witness ==
    /\ Dropped /\ resp.Result.type = "unencodable" /\ line.id = SmallID
    /\ written = <<>> /\ stdout = <<>> /\ output = <<>>

(***************************************************************************)
(* The registry's lock.  Three goroutines use one registry: "loop" is the  *)
(* goroutine of ServeStdio (it builds the capabilities, then serves        *)
(* tools/list and tools/call; a tool's handler runs on it and may itself   *)
(* register a tool, or never return), "registrar" calls RegisterTool and   *)
(* "lister" calls Server.ListTools.  Registry.mu is a sync.RWMutex: Lock   *)
(* queues behind the writers before it, waits for the readers to leave and *)
(* keeps new readers out meanwhile; Unlock lets the readers in that were   *)
(* kept out.                                                               *)
(***************************************************************************)
\* r.mu.Lock() is called: the writer queues
LockCall(m, g) == [m EXCEPT !.pending = Append(@, g)]
\* r.mu.Lock() may return
LockFree(m, g) ==
    /\ m.pending # <<>> /\ Head(m.pending) = g
    /\ m.writer = "none" /\ m.readers = {}
\* r.mu.Lock() returns
LockTake(m, g) == [m EXCEPT !.writer = g, !.pending = Tail(@)]
\* r.mu.Unlock()
Unlock(m, g) == [m EXCEPT !.writer = "none", !.readers = m.blocked, !.blocked = {}]
\* r.mu.RLock() returns at once when no writer holds or waits for the lock
RLockFree(m) == m.writer = "none" /\ m.pending = <<>>
RLockCall(m, g) ==
    IF RLockFree(m)
    THEN [m EXCEPT !.readers = @ \cup {g}]
    ELSE [m EXCEPT !.blocked = @ \cup {g}]
\* r.mu.RUnlock()
RUnlock(m, g) == [m EXCEPT !.readers = @ \ {g}]

\* mutant: the read lock is released when handleToolsCall returns (a
\* deferred RUnlock), not before the handler is called
LookupKeepsLock(m, g) == m

\* handleToolsCall, lines 194-196: RLock, the lookup, RUnlock
LookupUnlock(m, g) == RUnlock(m, g)

At(g, at, op, arg) ==
    goroutines' = [goroutines EXCEPT ![g] = [at |-> at, op |-> op, arg |-> arg]]

LockFrame ==
    UNCHANGED <<resources, resourceHandlers, prompts, promptHandlers, handlers, wirings,
                logLevel, loop, message, history, back>>

\* RegisterTool is called by the registrar
StartRegister ==
    /\ goroutines["registrar"].at = "idle"
    /\ \E r \in Registrations :
          At("registrar", "lock", "register", <<Tool("ping", r[1]), r[2]>>)
    /\ mu' = LockCall(mu, "registrar")
    /\ UNCHANGED <<tools, toolHandlers, registered, capabilities>>
    /\ LockFrame

\* RegisterTool is called by the tool's handler that runs on the loop
HandlerRegisters ==
    /\ goroutines["loop"].at = "handler"
    /\ At("loop", "lock", "handler", <<Tool("echo", "d1"), "h1">>)
    /\ mu' = LockCall(mu, "loop")
    /\ UNCHANGED <<tools, toolHandlers, registered, capabilities>>
    /\ LockFrame

AcquireBy(g) ==
    /\ goroutines[g].at = "lock"
    /\ LockFree(mu, g)
    /\ mu' = LockTake(mu, g)
    /\ At(g, "write tools", goroutines[g].op, goroutines[g].arg)
    /\ UNCHANGED <<tools, toolHandlers, registered, capabilities>>
    /\ LockFrame

\* r.tools[tool.Name] = tool
WriteToolsBy(g) ==
    /\ goroutines[g].at = "write tools"
    /\ tools' = Put(tools, goroutines[g].arg[1].name, goroutines[g].arg[1])
    /\ At(g, "write toolHandlers", goroutines[g].op, goroutines[g].arg)
    /\ UNCHANGED <<toolHandlers, registered, capabilities, mu>>
    /\ LockFrame

\* r.toolHandlers[tool.Name] = handler
WriteHandlersBy(g) ==
    /\ goroutines[g].at = "write toolHandlers"
    /\ toolHandlers' = Put(toolHandlers, goroutines[g].arg[1].name, goroutines[g].arg[2])
    /\ registered' = Put(registered, <<"tools", goroutines[g].arg[1].name>>,
                         goroutines[g].arg)
    /\ At(g, "unlock", goroutines[g].op, <<>>)
    /\ UNCHANGED <<tools, capabilities, mu>>
    /\ LockFrame

\* the deferred Unlock; RegisterTool returns, to the handler that called it
\* or to the registrar
UnlockBy(g) ==
    /\ goroutines[g].at = "unlock"
    /\ mu' = Unlock(mu, g)
    /\ IF goroutines[g].op = "handler"
       THEN At(g, "handler", "call", <<>>)
       ELSE goroutines' = [goroutines EXCEPT ![g] = Idle]
    /\ UNCHANGED <<tools, toolHandlers, registered, capabilities>>
    /\ LockFrame

\* handleToolsList on the loop and Server.ListTools on the lister call RLock
StartList ==
    /\ \E g \in {"loop", "lister"} :
          /\ goroutines[g].at = "idle"
          /\ mu' = RLockCall(mu, g)
          /\ At(g, IF RLockFree(mu) THEN "read" ELSE "rlock", "list", <<>>)
    /\ UNCHANGED <<tools, toolHandlers, registered, capabilities>>
    /\ LockFrame

\* handleToolsCall calls RLock
StartCall ==
    /\ goroutines["loop"].at = "idle"
    /\ mu' = RLockCall(mu, "loop")
    /\ \E k \in ToolNames :
          At("loop", IF RLockFree(mu) THEN "read" ELSE "rlock", "call", <<k>>)
    /\ UNCHANGED <<tools, toolHandlers, registered, capabilities>>
    /\ LockFrame

\* RLock returns to a reader that was kept out
GrantedTo(g) ==
    /\ goroutines[g].at = "rlock"
    /\ g \in mu.readers
    /\ At(g, "read", goroutines[g].op, goroutines[g].arg)
    /\ UNCHANGED <<tools, toolHandlers, registered, capabilities, mu>>
    /\ LockFrame

\* the list is built from r.tools; the deferred RUnlock
ListedBy(g) ==
    /\ goroutines[g].at = "read" /\ goroutines[g].op = "list"
    /\ mu' = RUnlock(mu, g)
    /\ goroutines' = [goroutines EXCEPT ![g] = Idle]
    /\ UNCHANGED <<tools, toolHandlers, registered, capabilities>>
    /\ LockFrame

\* handler, ok := r.toolHandlers[req.Name]; RUnlock; not found: return;
\* found: the handler is called
LookedUpBy(g) ==
    /\ goroutines[g].at = "read" /\ goroutines[g].op = "call"
    /\ IF goroutines[g].arg[1] \in DOMAIN toolHandlers
       THEN /\ mu' = LookupUnlock(mu, g)
            /\ At(g, "handler", "call", <<>>)
       ELSE /\ mu' = RUnlock(mu, g)
            /\ goroutines' = [goroutines EXCEPT ![g] = Idle]
    /\ UNCHANGED <<tools, toolHandlers, registered, capabilities>>
    /\ LockFrame

\* the tool's handler returns, and handleToolsCall with it
HandlerReturns ==
    /\ goroutines["loop"].at = "handler"
    /\ goroutines' = [goroutines EXCEPT !["loop"] = Idle]
    /\ UNCHANGED <<tools, toolHandlers, registered, capabilities, mu>>
    /\ LockFrame

\* registerHandlers calls buildCapabilities, which takes no lock
StartBuild ==
    /\ goroutines["loop"].at = "idle"
    /\ At("loop", "build", "build", <<>>)
    /\ UNCHANGED <<tools, toolHandlers, registered, capabilities, mu>>
    /\ LockFrame

\* len(r.tools) > 0 is read; while another goroutine is writing r.tools the
\* read races with the write and yields the length before or after it
Built ==
    /\ goroutines["loop"].at = "build"
    /\ capabilities' \in
          {buildCapabilities}
          \cup {buildCapabilities \cup {"tools"} :
                  g \in {h \in Goroutines : goroutines[h].at = "write tools"}}
    /\ goroutines' = [goroutines EXCEPT !["loop"] = Idle]
    /\ UNCHANGED <<tools, toolHandlers, registered, mu>>
    /\ LockFrame

Acquire == \E g \in Goroutines : AcquireBy(g)
WriteTools == \E g \in Goroutines : WriteToolsBy(g)
WriteHandlers == \E g \in Goroutines : WriteHandlersBy(g)
Unlocks == \E g \in Goroutines : UnlockBy(g)
Granted == \E g \in Goroutines : GrantedTo(g)
Listed == \E g \in Goroutines : ListedBy(g)
LookedUp == \E g \in Goroutines : LookedUpBy(g)

LockNext ==
    \/ StartRegister
    \/ HandlerRegisters
    \/ Acquire
    \/ WriteTools
    \/ WriteHandlers
    \/ Unlocks
    \/ StartList
    \/ StartCall
    \/ Granted
    \/ Listed
    \/ LookedUp
    \/ HandlerReturns
    \/ StartBuild
    \/ Built

LockSpec == Init /\ [][LockNext]_vars

\* what goroutine g does once it called Lock or RLock, up to the unlock.
\* Each such step is taken when it stays possible: the scheduler runs every
\* runnable goroutine, sync.Mutex wakes its waiters in turn.  Starting an
\* operation and a handler's return are not required to happen.
LockedStep(g) ==
    \/ AcquireBy(g)
    \/ WriteToolsBy(g)
    \/ WriteHandlersBy(g)
    \/ UnlockBy(g)
    \/ GrantedTo(g)
    \/ ListedBy(g)
    \/ LookedUpBy(g)

LockFairSpec == LockSpec /\ \A g \in Goroutines : WF_vars(LockedStep(g))

HoldsLock(g) == mu.writer = g \/ g \in mu.readers

\* C22: a handler runs with the lock released, and no registry operation
\* waits for the lock for ever: whatever the interleaving of registrations,
\* lists and calls, with a handler that never returns or one that registers
\* a tool itself, a goroutine that waits in Lock gets the write lock and one
\* that waits in RLock gets the read lock.
C22_HandlerRunsUnlockedAndLockIsGranted ==
    /\ [](\A g \in Goroutines : goroutines[g].at = "handler" => ~HoldsLock(g))
    /\ \A g \in Goroutines : (goroutines[g].at = "lock") ~> (mu.writer = g)
    /\ \A g \in Goroutines : (goroutines[g].at = "rlock") ~> (g \in mu.readers)

\* the handler running on the loop registered a tool and holds the write
\* lock, the registrar waits behind it and the lister is kept out
C22_Witness ==
    /\ goroutines["loop"].op = "handler" /\ mu.writer = "loop"
    /\ goroutines["registrar"].at = "lock"
    /\ goroutines["lister"].at = "rlock"

Reading(g) == goroutines[g].at \in {"read", "build"}
Writing(g) == goroutines[g].at \in {"write tools", "write toolHandlers"}

\* C23: every read of the registry's maps, those of buildCapabilities
\* included, happens with the lock held at least in read mode, every write
\* with the lock held in write mode, and no goroutine reads a map while
\* another writes it.
C23_MapAccessUnderLock ==
    /\ \A g \in Goroutines : Reading(g) => HoldsLock(g)
    /\ \A g \in Goroutines : Writing(g) => mu.writer = g
    /\ \A g, h \in Goroutines : ~(Writing(g) /\ Reading(h))

\* the line is a valid message without id whose method is on the dispatcher
NotificationFor(m) ==
    /\ line.kind = "object" /\ line.id = AbsentID
    /\ ValidRequest(req) /\ req.Method = m /\ m \in DOMAIN handlers

\* C31: a notification is dispatched as a request is, only its response is
\* not written: the handler of its method is invoked exactly once, with its
\* params (a tools/call without id runs the registered tool's handler, once,
\* and what a handler does to the logger's level is done), and no line is
\* written for it.
C31_NotificationIsDispatched ==
    /\ [][\A m \in KnownMethods :
            (pc = "handle" /\ pc' # "handle" /\ NotificationFor(m))
              => /\ invoked' = <<handlers[m]>>
                 /\ Route(req, handlers) = Route([req EXCEPT !.ID = DecodeID(SmallID)], handlers)
                 /\ logLevel' = IF m = MethodLoggingSetLevel
                                THEN SetLevel(req.Params) ELSE logLevel
                 /\ (m = MethodToolsCall /\ ParamsParse(req.Params)
                       /\ ParamsKey(req.Params) \in DOMAIN toolHandlers)
                      => InvokesHandlerOf(ParamsKey(req.Params))]_vars
    /\ [](\A m \in KnownMethods :
            (Completed /\ NotificationFor(m))
              => /\ invoked = <<handlers[m]>>
                 /\ Len(calls) <= 1
                 /\ written = <<>> /\ stdout = <<>>)

\* a tools/call without id ran the tool's handler; nothing was written
C31_Witness ==
    /\ Completed /\ NotificationFor(MethodToolsCall)
    /\ invoked = <<"Registry.handleToolsCall">>
    /\ Len(calls) = 1 /\ calls[1].key = "ping" /\ calls[1].outcome = "returned"
    /\ calls[1].handler = toolHandlers["ping"]
    /\ written = <<>>

\* C32: when the stream ends with bytes that no newline follows, ServeStdio
\* returns nil at once: the bytes are not decoded, nothing is dispatched and
\* nothing is written for them, whatever they are.
C32_FinalFragmentIsIgnored ==
    [][(pc = "read" /\ input = "open" /\ input' = "fragment")
         => /\ pc' = "idle" /\ ret' = ReturnAtEOF
            /\ line' = NoLine /\ ~decoded' /\ req' = ZeroRequest
            /\ invoked' = <<>> /\ calls' = <<>>
            /\ written' = <<>> /\ stdout' = <<>> /\ output' = output
            /\ logLevel' = logLevel /\ nread' = nread]_vars

\* a line was answered, then the stream ended in a fragment
C32_Witness ==
    /\ pc = "idle" /\ input = "fragment" /\ ret = "nil"
    /\ nread = 1 /\ output = <<1>>
    /\ line = NoLine /\ invoked = <<>>

\* the line is a JSON object whose id member is null
NullIdLine == line.kind = "object" /\ line.id = NullID

\* C33: a request whose id is null is decoded to the very request the same
\* line without id is decoded to: it is a notification; the handler of a
\* registered method is invoked, and no line is written, whether the outcome
\* is a result or an error.
C33_NullIdIsANotification ==
    (NullIdLine /\ nread > 0)
      => /\ decoded
         /\ req = Unmarshal([line EXCEPT !.id = AbsentID]).req
         /\ IsNotification(req)
         /\ written = <<>>
         /\ Completed =>
              /\ (ValidRequest(req) /\ req.Method \in DOMAIN handlers)
                    => invoked = <<handlers[req.Method]>>
              /\ (~ValidRequest(req) \/ req.Method \notin DOMAIN handlers)
                    => (invoked = <<>> /\ IsErrorResponse(resp))

\* an unknown method under a null id: MethodNotFound is built, nothing written
C33_Witness ==
    /\ Completed /\ NullIdLine /\ req.Method = "nope" /\ ValidRequest(req)
    /\ IsErrorResponse(resp) /\ ErrorCode(resp) = ErrorMethodNotFound
    /\ written = <<>> /\ output = <<>>

(***************************************************************************)
(* The dispatcher on one decoded message: the store's handlers and a       *)
(* custom handler are registered, HandleRequest is about to run.           *)
(***************************************************************************)
DispatchMethods ==
    {CustomMethod, MethodToolsCall, MethodResourcesRead, MethodPromptsGet, MethodPing, "nope"}
DispatchLines ==
    {ObjectLine(v, m, p, i) :
        v \in {"2.0", "1.0"}, m \in DispatchMethods, p \in ParamsTokens, i \in IDTokens}

DispatchInit ==
    /\ tools = Put(EmptyMap, "ping", Tool("ping", "d1"))
    /\ toolHandlers = Put(EmptyMap, "ping", "h1")
    /\ resources = Put(EmptyMap, "ping", Resource("ping", "d1"))
    /\ resourceHandlers = Put(EmptyMap, "ping", "h2")
    /\ prompts = Put(EmptyMap, "ping", Prompt("ping", "d1"))
    /\ promptHandlers = Put(EmptyMap, "ping", "h1")
    /\ registered = Put(Put(Put(EmptyMap, <<"tools", "ping">>, <<Tool("ping", "d1"), "h1">>),
                            <<"resources", "ping">>, <<Resource("ping", "d1"), "h2">>),
                        <<"prompts", "ping">>, <<Prompt("ping", "d1"), "h1">>)
    /\ capabilities = buildCapabilities
    /\ handlers = RegisterMethod(registerHandlers(EmptyMap, capabilities),
                                 CustomMethod, CustomHandler)
    /\ logLevel = "DebugLevel"
    /\ pc = "handle"
    /\ serveCount = 1
    /\ wirings = 1
    /\ ret = "none"
    /\ nread = 1
    /\ input = "open"
    /\ line \in DispatchLines
    /\ decoded = Unmarshal(line).ok
    /\ req = Unmarshal(line).req
    /\ resp = NoResponse
    /\ invoked = <<>>
    /\ calls = <<>>
    /\ written = <<>>
    /\ output = <<>>
    /\ initialized = FALSE
    /\ stdout = <<>>
    /\ back = NoResponse
    /\ mu = Unlocked
    /\ goroutines = [g \in Goroutines |-> Idle]

DispatchNext ==
    \/ HandleRequest
    \/ HandlerReturn
    \/ Reply

DispatchSpec == DispatchInit /\ [][DispatchNext]_vars

\* response r carries what the handler returned: its error as it is, under
\* the request's id and without a result, or else its result
CarriesReturn(r, rt) ==
    /\ r.JSONRPC = "2.0" /\ r.ID = req.ID
    /\ IF rt.err.ptr # "nil"
       THEN /\ r.Error = rt.err
            /\ r.Error.Code = rt.err.Code /\ r.Error.Message = rt.err.Message
            /\ r.Error.Data = rt.err.Data
            /\ r.Result = NilResult
       ELSE r.Error = NilError /\ r.Result = rt.result

\* C34: whenever a handler returns an error, the response is an error
\* response with the code, message and data the handler returned and the
\* request's id, and the handler's result is discarded; an error of the
\* dispatcher's own making is InvalidRequest or MethodNotFound, never
\* InternalError, and the written line shows the same.
C34_HandlerErrorPassesThrough ==
    /\ [][/\ (pc = "handle" /\ pc' = "write" /\ Route(req, handlers).invoke)
               => CarriesReturn(resp', LookupOf(handlers[req.Method], req.Params).ret)
          /\ (pc = "handler" /\ pc' = "write")
               => CarriesReturn(resp', ReturnOf(calls[Len(calls)].via,
                                                calls[Len(calls)].handler,
                                                calls'[Len(calls)].outcome = "returned"))
          /\ (pc = "handle" /\ ~Route(req, handlers).invoke)
               => /\ IsErrorResponse(resp')
                  /\ ErrorCode(resp') \in {ErrorInvalidRequest, ErrorMethodNotFound}]_vars
    /\ [](\A p \in ParamsTokens :
            (Completed /\ invoked = <<CustomHandler>> /\ req.Params = p
               /\ ~IsNotification(req) /\ CustomHandle(p).err.ptr # "nil")
              => /\ Len(written) = 1
                 /\ written[1].hasError /\ ~written[1].hasResult
                 /\ written[1].error = CustomHandle(p).err
                 /\ written[1].id = EncodeID(req.ID))

\* the custom handler returned a result and an error with data: the line
\* written carries that error and no result
C34_Witness ==
    /\ Completed /\ invoked = <<CustomHandler>> /\ line.id = SmallID
    /\ CustomHandle(req.Params).result.type = "struct{}"
    /\ CustomHandle(req.Params).err.Code = ErrorInternal
    /\ CustomHandle(req.Params).err.Data = <<"export", "data">>
    /\ Len(written) = 1 /\ written[1].hasError /\ ~written[1].hasResult
    /\ written[1].error = CustomHandle(req.Params).err

====
